---- MODULE Spec2Model ----
(***************************************************************************)
(* Model of scripts/apitypings/main.go: the generator that maps the Go     *)
(* declarations of a package to TypeScript declarations.                   *)
(*                                                                         *)
(* Text is a sequence of tokens.  Identifiers (type, field, package and    *)
(* constant names, constant values) are sequences of one-character tokens, *)
(* so that the character-level operations of the code (strings.HasSuffix,  *)
(* sort.Strings, cases.Title, Exported) are computed; fixed fragments of   *)
(* the output ("export type ", "number") are single tokens.                *)
(***************************************************************************)
EXTENDS Integers, Sequences, FiniteSets, TLC

\* ------------------------------------------------------------------ text

Upper == <<"A", "B", "C", "D", "E", "F", "G", "H", "I", "J", "K", "L", "M",
           "N", "O", "P", "Q", "R", "S", "T", "U", "V", "W", "X", "Y", "Z">>
Lower == <<"a", "b", "c", "d", "e", "f", "g", "h", "i", "j", "k", "l", "m",
           "n", "o", "p", "q", "r", "s", "t", "u", "v", "w", "x", "y", "z">>
\* The characters of identifiers and quoted values, in byte order.
Ascii == <<"\"">> \o Upper \o Lower

\* F applied to the value of v, which is computed once.
With(v, F(_)) == CHOOSE y \in {F(x) : x \in {v}} : TRUE

InSeq(s, x) == \E i \in 1..Len(s) : s[i] = x
IndexOf(s, x) == CHOOSE i \in 1..Len(s) : s[i] = x
CharOrd(c) == IndexOf(Ascii, c)

ToUpper(c) == IF InSeq(Lower, c) THEN Upper[IndexOf(Lower, c)] ELSE c
ToLower(c) == IF InSeq(Upper, c) THEN Lower[IndexOf(Upper, c)] ELSE c

\* The byte-wise order of Go strings (a < b).
StrLess(a, b) ==
    \E k \in 1..(Len(a) + 1) :
        /\ \A i \in 1..(k - 1) : i <= Len(b) /\ a[i] = b[i]
        /\ \/ k = Len(a) + 1 /\ Len(b) >= k
           \/ k <= Len(a) /\ k <= Len(b) /\ CharOrd(a[k]) < CharOrd(b[k])

RECURSIVE InsertSorted(_, _)
InsertSorted(s, x) ==
    IF s = <<>> THEN <<x>>
    ELSE IF StrLess(x, s[1]) THEN <<x>> \o s
    ELSE <<s[1]>> \o InsertSorted(Tail(s), x)

\* sort.Strings
RECURSIVE SortStrings(_)
SortStrings(s) ==
    IF s = <<>> THEN <<>>
    ELSE With(SortStrings(SubSeq(s, 1, Len(s) - 1)),
              LAMBDA front : InsertSorted(front, s[Len(s)]))

\* strings.Join
RECURSIVE Join(_, _)
Join(parts, sep) ==
    IF parts = <<>> THEN <<>>
    ELSE IF Len(parts) = 1 THEN parts[1]
    ELSE parts[1] \o sep \o Join(Tail(parts), sep)

\* strings.HasSuffix
HasSuffix(s, suf) ==
    Len(s) >= Len(suf) /\ SubSeq(s, Len(s) - Len(suf) + 1, Len(s)) = suf

\* cases.Title(language.English).String on a one-word name.
Title(s) ==
    [i \in 1..Len(s) |-> IF i = 1 THEN ToUpper(s[i]) ELSE ToLower(s[i])]

\* token sequences of the names the model uses
codersdk == <<"c", "o", "d", "e", "r", "s", "d", "k">>
healthsdk == <<"h", "e", "a", "l", "t", "h", "s", "d", "k">>
health == <<"h", "e", "a", "l", "t", "h">>
serpent == <<"s", "e", "r", "p", "e", "n", "t">>

anyT == <<"a", "n", "y">>
comparableT == <<"c", "o", "m", "p", "a", "r", "a", "b", "l", "e">>

indent == <<"  ">>

indentedComment(comment) == indent \o <<"// ">> \o comment

\* ------------------------------------------------------------------ maps

EmptyMap == [k \in {} |-> <<>>]
MapPut(m, k, v) == [x \in (DOMAIN m) \cup {k} |-> IF x = k THEN v ELSE m[x]]
\* for k, v := range b { a[k] = v }
MapMerge(a, b) ==
    [x \in (DOMAIN a) \cup (DOMAIN b) |-> IF x \in DOMAIN b THEN b[x] ELSE a[x]]

\* slices.Contains
Contains(s, x) == InSeq(s, x)

\* ------------------------------------------------------------------ types

\* go/types values, by kind:
\*   Basic     [kind, bname, numeric, boolean, bkind]
\*   Struct    [kind, fields]
\*   Map       [kind, key, elem]
\*   Slice     [kind, elem]        Array [kind, elem]
\*   Pointer   [kind, elem]
\*   Interface [kind, empty]
\*   Named     [kind, path, pkg, name, args]   (path, pkg: the import path
\*             and the name of the declaring package)
\*   TypeParam [kind, name, pkgPath, cpath, cname, iface]
\*   Chan      [kind, elem]

\* types.Type.String()
RECURSIVE TypeString(_)
RECURSIVE TypeStrings(_)
TypeString(ty) ==
    CASE ty.kind = "Basic" -> <<ty.bname>>
      [] ty.kind = "Named" ->
            (IF ty.path = <<>> THEN <<>> ELSE ty.path \o <<".">>) \o ty.name
            \o (IF ty.args = <<>> THEN <<>>
                ELSE <<"[">> \o Join(TypeStrings(ty.args), <<",">>) \o <<"]">>)
      [] ty.kind = "Pointer" -> <<"*">> \o TypeString(ty.elem)
      [] ty.kind = "Slice" -> <<"[]">> \o TypeString(ty.elem)
      [] ty.kind = "Array" -> <<"[N]">> \o TypeString(ty.elem)
      [] ty.kind = "Map" ->
            <<"map[">> \o TypeString(ty.key) \o <<"]">> \o TypeString(ty.elem)
      [] ty.kind = "Chan" -> <<"chan ">> \o TypeString(ty.elem)
      [] ty.kind = "TypeParam" -> ty.name
      [] ty.kind = "Interface" ->
            IF ty.empty THEN <<"interface{}">> ELSE <<"interface{...}">>
      [] OTHER -> <<"struct{...}">>
TypeStrings(tys) ==
    [i \in 1..Len(tys) |-> TypeString(tys[i])]

\* type TypescriptType struct; gtNil: GenericTypes is the nil map
TS(vt) ==
    [GenericTypes |-> EmptyMap, gtNil |-> TRUE, GenericValue |-> <<>>,
     ValueType |-> vt, AboveTypeLine |-> <<>>, Optional |-> FALSE]

\* The zero TypescriptType returned beside an error.
ZeroTS == TS(<<>>)

\* ------------------------------------------------------------------ packages

\* import paths (one token each)
codersdkPath == <<"github.com/coder/coder/v2/codersdk">>
healthsdkPath == <<"github.com/coder/coder/v2/healthsdk">>
healthPath == <<"github.com/coder/coder/v2/coderd/healthcheck/health">>
serpentPath == <<"github.com/coder/serpent">>
urlPath == <<"net/url">>
timePath == <<"time">>
sqlPath == <<"database/sql">>
uuidPath == <<"github.com/google/uuid">>
jsonPath == <<"encoding/json">>

\* The external named types typescriptType handles by name: n.String() and
\* the TypescriptType returned for it, in the order of the switch.
HardCoded == <<
    [str |-> serpentPath \o <<".">> \o <<"R", "e", "g", "e", "x", "p">>,
     ts |-> [TS(<<"string">>) EXCEPT !.Optional = FALSE]],
    [str |-> serpentPath \o <<".">> \o <<"H", "o", "s", "t", "P", "o", "r", "t">>,
     ts |-> [TS(<<"string">>) EXCEPT !.Optional = FALSE]],
    [str |-> serpentPath \o <<".">> \o <<"S", "t", "r", "i", "n", "g", "A", "r", "r", "a", "y">>,
     ts |-> [TS(<<"string[]">>) EXCEPT !.Optional = FALSE]],
    [str |-> serpentPath \o <<".">> \o <<"S", "t", "r", "i", "n", "g">>,
     ts |-> [TS(<<"string">>) EXCEPT !.Optional = FALSE]],
    [str |-> serpentPath \o <<".">> \o <<"Y", "A", "M", "L", "C", "o", "n", "f", "i", "g", "P", "a", "t", "h">>,
     ts |-> [TS(<<"string">>) EXCEPT !.Optional = FALSE]],
    [str |-> serpentPath \o <<".">> \o <<"S", "t", "r", "i", "n", "g", "s">>,
     ts |-> [TS(<<"string[]">>) EXCEPT !.Optional = FALSE]],
    [str |-> serpentPath \o <<".">> \o <<"I", "n", "t", "6", "4">>,
     ts |-> [TS(<<"number">>) EXCEPT !.Optional = FALSE]],
    [str |-> serpentPath \o <<".">> \o <<"B", "o", "o", "l">>,
     ts |-> [TS(<<"boolean">>) EXCEPT !.Optional = FALSE]],
    [str |-> serpentPath \o <<".">> \o <<"D", "u", "r", "a", "t", "i", "o", "n">>,
     ts |-> [TS(<<"number">>) EXCEPT !.Optional = FALSE]],
    [str |-> urlPath \o <<".">> \o <<"U", "R", "L">>,
     ts |-> [TS(<<"string">>) EXCEPT !.Optional = FALSE]],
    [str |-> timePath \o <<".">> \o <<"T", "i", "m", "e">>,
     ts |-> [TS(<<"string">>) EXCEPT !.Optional = FALSE]],
    [str |-> timePath \o <<".">> \o <<"D", "u", "r", "a", "t", "i", "o", "n">>,
     ts |-> [TS(<<"number">>) EXCEPT !.Optional = FALSE]],
    [str |-> sqlPath \o <<".">> \o <<"N", "u", "l", "l", "T", "i", "m", "e">>,
     ts |-> [TS(<<"string">>) EXCEPT !.Optional = TRUE]],
    [str |-> codersdkPath \o <<".">> \o <<"N", "u", "l", "l", "T", "i", "m", "e">>,
     ts |-> [TS(<<"string">>) EXCEPT !.Optional = TRUE]],
    [str |-> uuidPath \o <<".">> \o <<"N", "u", "l", "l", "U", "U", "I", "D">>,
     ts |-> [TS(<<"string">>) EXCEPT !.Optional = TRUE]],
    [str |-> uuidPath \o <<".">> \o <<"U", "U", "I", "D">>,
     ts |-> [TS(<<"string">>) EXCEPT !.Optional = FALSE]],
    [str |-> jsonPath \o <<".">> \o <<"R", "a", "w", "M", "e", "s", "s", "a", "g", "e">>,
     ts |-> [TS(<<"Record<string, string>">>) EXCEPT !.Optional = FALSE]],
    [str |-> serpentPath \o <<".">> \o <<"U", "R", "L">>,
     ts |-> [TS(<<"string">>) EXCEPT !.Optional = FALSE]],
    [str |-> codersdkPath \o <<".">> \o <<"R", "e", "g", "i", "o", "n", "s", "R", "e", "s", "p", "o", "n", "s", "e">> \o <<"[">> \o codersdkPath \o <<".">> \o <<"W", "o", "r", "k", "s", "p", "a", "c", "e", "P", "r", "o", "x", "y">> \o <<"]">>,
     ts |-> TS(<<"RegionsResponse<WorkspaceProxy>">>)],
    [str |-> healthPath \o <<".">> \o <<"M", "e", "s", "s", "a", "g", "e">>,
     ts |-> TS(<<"HealthMessage">>)],
    [str |-> healthPath \o <<".">> \o <<"S", "e", "v", "e", "r", "i", "t", "y">>,
     ts |-> TS(<<"HealthSeverity">>)],
    [str |-> healthsdkPath \o <<".">> \o <<"H", "e", "a", "l", "t", "h", "S", "e", "c", "t", "i", "o", "n">>,
     ts |-> TS(<<"HealthSection">>)],
    [str |-> codersdkPath \o <<".">> \o <<"P", "r", "o", "v", "i", "s", "i", "o", "n", "e", "r", "D", "a", "e", "m", "o", "n">>,
     ts |-> TS(<<"ProvisionerDaemon">>)] >>

IsHardCoded(str) == \E i \in 1..Len(HardCoded) : HardCoded[i].str = str
HardCodedTS(str) ==
    HardCoded[CHOOSE i \in 1..Len(HardCoded) : HardCoded[i].str = str].ts

\* ------------------------------------------------------------------ world

\* The input of a run is a world w:
\*   w.gens[g]   the package a Generator g parsed:
\*       pkgName, pkgPath, onlyOptIn, externals (generator ids),
\*       names (Scope().Names(): sorted), decls (name -> object), comments
\*   w.foreign   the named types of packages that are not scanned:
\*       n.String() without type arguments -> [under, tparams]
\* An object of a scope: [name, obj, pkg, file, under, tparams, ctype, val]
\*   obj: "TypeName" | "Const" | "Var" | "Func"
\* The mutable state of the generators is st:
\*   st.allowList[g]  Generator.allowList,  st.builtins[g]  Generator.builtins

\* g.pkg.Types.Scope().Lookup(name) != nil
InScope(w, g, name) == name \in DOMAIN w.gens[g].decls

QualName(n) == n.path \o <<".">> \o n.name

\* The declaration behind a *types.Named: [under, tparams].
TypeDeclOf(w, n) ==
    LET owners == {g \in DOMAIN w.gens :
                     w.gens[g].pkgPath = n.path /\ InScope(w, g, n.name)}
    IN  IF owners # {}
        THEN LET d == w.gens[CHOOSE g \in owners : TRUE].decls[n.name]
             IN  [under |-> d.under, tparams |-> d.tparams]
        ELSE w.foreign[QualName(n)]

\* A type of the generic declaration with the type arguments of n in place
\* of its type parameters (at the top of the type).
Instantiate(ty, tparams, args) ==
    IF ty.kind = "TypeParam"
       /\ \E i \in 1..Len(tparams) : tparams[i].name = ty.name /\ i <= Len(args)
    THEN args[CHOOSE i \in 1..Len(tparams) : tparams[i].name = ty.name]
    ELSE ty

\* n.Underlying()
Underlying(w, n) == TypeDeclOf(w, n).under

\* regexp `github\.com/coder/serpent.Struct\[.*\]` MatchString(n.String())
MatchesSerpentStruct(str) ==
    \E i \in 1..Len(str) :
        /\ i + 8 <= Len(str)
        /\ <<str[i]>> = serpentPath
        /\ SubSeq(str, i + 2, i + 8) = <<"S", "t", "r", "u", "c", "t", "[">>
        /\ \E j \in (i + 9)..Len(str) : str[j] = "]"

\* func (g *Generator) lookupNamedReference(n *types.Named)
lookupNamedReference(w, g, n) ==
    IF w.gens[g].pkgName = n.pkg /\ InScope(w, g, n.name)
    THEN [found |-> TRUE, generator |-> g, local |-> TRUE]
    ELSE LET exts == w.gens[g].externals
             hits == {i \in 1..Len(exts) :
                        w.gens[exts[i]].pkgName = n.pkg /\ InScope(w, exts[i], n.name)}
         IN  IF hits # {}
             THEN [found |-> TRUE,
                   generator |-> exts[CHOOSE i \in hits : \A j \in hits : i <= j],
                   local |-> FALSE]
             ELSE [found |-> FALSE, generator |-> g, local |-> FALSE]

\* isBuiltIn that knows every name
isBuiltInAny(name) == [include |-> TRUE, str |-> <<>>]

\* func (Generator) isBuiltIn(name string) (bool, string)
isBuiltIn(name) ==
    CASE name = comparableT ->
            [include |-> TRUE,
             str |-> <<"export type comparable = boolean | number | string | any">>]
      [] name = anyT -> [include |-> TRUE, str |-> <<>>]
      [] OTHER -> [include |-> FALSE, str |-> <<>>]

\* func objName(obj types.Object) string
objName(pkgName, name) ==
    IF pkgName # codersdk /\ pkgName # healthsdk
    THEN Title(pkgName) \o name
    ELSE name

\* AppendAllow that puts the name in front
PrependAllow(st, g, name) ==
    [st EXCEPT !.allowList[g] = <<name>> \o @]

\* lines 915 and 918: g.allowList = append(g.allowList, name)
AppendAllow(st, g, name) ==
    [st EXCEPT !.allowList[g] = Append(@, name)]

\* NoteReference without the test of line 909 that the name is absent
NoteReferenceAlways(w, g, n, ref, st) ==
    LET st1 == IF w.gens[g].onlyOptIn THEN AppendAllow(st, g, n.name) ELSE st
    IN  IF ~ref.local THEN AppendAllow(st1, ref.generator, n.name) ELSE st1

\* lines 907-923: the allow-list updates of a resolved named reference
NoteReference(w, g, n, ref, st) ==
    LET st1 == IF w.gens[g].onlyOptIn /\ ~Contains(st.allowList[g], n.name)
               THEN AppendAllow(st, g, n.name)
               ELSE st
    IN  IF ~ref.local THEN AppendAllow(st1, ref.generator, n.name) ELSE st1

Ret(ts, st) == [ts |-> ts, err |-> "", st |-> st]
Fail(err, st) == [ts |-> ZeroTS, err |-> err, st |-> st]

\* func (g *Generator) typescriptType(ty types.Type) (TypescriptType, error)
RECURSIVE typescriptType(_, _, _, _)
RECURSIVE typeArgs(_, _, _, _, _, _)

\* lines 926-949: the loop over n.TypeArgs(); acc holds genericConstraints,
\* genericNames and genericTypes.
typeArgs(w, g, args, i, st, acc) ==
    IF i > Len(args) THEN [acc |-> acc, err |-> "", st |-> st]
    ELSE With(typescriptType(w, g, args[i], st), LAMBDA r :
           IF r.err # "" THEN [acc |-> acc, err |-> r.err, st |-> r.st]
           ELSE LET isParam == args[i].kind = "TypeParam"
                    acc1 == [genericConstraints |->
                                 Append(acc.genericConstraints, r.ts.ValueType),
                             genericNames |->
                                 Append(acc.genericNames,
                                        IF isParam THEN args[i].name
                                        ELSE r.ts.ValueType),
                             genericTypes |->
                                 IF isParam
                                 THEN MapPut(acc.genericTypes, args[i].name,
                                             r.ts.ValueType)
                                 ELSE acc.genericTypes]
                IN  With(acc1, LAMBDA a : typeArgs(w, g, args, i + 1, r.st, a)))

typescriptType(w, g, ty, st) ==
    CASE ty.kind = "Basic" ->
            (CASE ty.numeric -> Ret(TS(<<"number">>), st)
               [] ty.boolean -> Ret(TS(<<"boolean">>), st)
               [] ty.bkind = "Uint8" ->
                    Ret([TS(<<"number">>) EXCEPT !.AboveTypeLine =
                            indentedComment(<<"This is a byte in golang">>)], st)
               [] OTHER -> Ret(TS(<<ty.bname>>), st))
      [] ty.kind = "Struct" ->
            Ret([TS(anyT) EXCEPT !.AboveTypeLine =
                    indentedComment(<<"Embedded anonymous struct, please fix by naming it">>)
                    \o <<"\n">>
                    \o indentedComment(<<"eslint-disable-next-line @typescript-eslint/no-explicit-any -- Anonymously embedded struct">>)],
                st)
      [] ty.kind = "Map" ->
            With(typescriptType(w, g, ty.key, st), LAMBDA k :
                IF k.err # "" THEN Fail(k.err, k.st)
                ELSE With(typescriptType(w, g, ty.elem, k.st), LAMBDA v :
                         IF v.err # "" THEN Fail(v.err, v.st)
                         ELSE IF k.ts.gtNil /\ DOMAIN v.ts.GenericTypes # {}
                         THEN Fail("panic: assignment to entry in nil map", v.st)
                         ELSE Ret([TS(<<"Record<">> \o k.ts.ValueType \o <<", ">>
                                      \o v.ts.ValueType \o <<">">>)
                                   EXCEPT !.AboveTypeLine =
                                              k.ts.AboveTypeLine
                                              \o (IF k.ts.AboveTypeLine # <<>>
                                                     /\ v.ts.AboveTypeLine # <<>>
                                                  THEN <<"\n">> ELSE <<>>)
                                              \o v.ts.AboveTypeLine,
                                          !.GenericTypes =
                                              MapMerge(k.ts.GenericTypes,
                                                       v.ts.GenericTypes),
                                          !.gtNil = k.ts.gtNil],
                                  v.st)))
      [] ty.kind \in {"Slice", "Array"} ->
            IF TypeString(ty.elem) = <<"byte">>
            THEN Ret(TS(<<"string">>), st)
            ELSE With(typescriptType(w, g, ty.elem, st), LAMBDA u :
                     IF u.err # "" THEN Fail(u.err, u.st)
                     ELSE Ret([TS(u.ts.ValueType \o <<"[]">>)
                               EXCEPT !.GenericValue =
                                          IF u.ts.GenericValue # <<>>
                                          THEN u.ts.GenericValue \o <<"[]">>
                                          ELSE <<>>,
                                      !.AboveTypeLine = u.ts.AboveTypeLine,
                                      !.GenericTypes = u.ts.GenericTypes,
                                      !.gtNil = u.ts.gtNil],
                              u.st))
      [] ty.kind = "Named" ->
            IF IsHardCoded(TypeString(ty))
            THEN Ret(HardCodedTS(TypeString(ty)), st)
            ELSE IF MatchesSerpentStruct(TypeString(ty))
                    /\ Underlying(w, ty).kind = "Struct"
            THEN LET d == TypeDeclOf(w, ty)
                 IN  typescriptType(w, g,
                        Instantiate(d.under.fields[1].type, d.tparams, ty.args), st)
            ELSE LET ref == lookupNamedReference(w, g, ty)
                     name == objName(ty.pkg, ty.name)
                 IN  IF ref.found
                     THEN With(typeArgs(w, g, ty.args, 1,
                                     NoteReference(w, g, ty, ref, st),
                                     [genericConstraints |-> <<>>,
                                      genericNames |-> <<>>,
                                      genericTypes |-> EmptyMap]), LAMBDA a :
                              IF a.err # "" THEN Fail(a.err, a.st)
                              ELSE Ret([TS(IF ty.args # <<>>
                                           THEN name \o <<"<">>
                                                \o Join(a.acc.genericConstraints, <<", ">>)
                                                \o <<">">>
                                           ELSE name)
                                        EXCEPT !.GenericTypes = a.acc.genericTypes,
                                               !.gtNil = FALSE,
                                               !.GenericValue =
                                                   IF ty.args # <<>>
                                                   THEN name \o <<"<">>
                                                        \o Join(a.acc.genericNames, <<", ">>)
                                                        \o <<">">>
                                                   ELSE <<>>],
                                       a.st))
                     ELSE IF Underlying(w, ty).kind = "Struct"
                     THEN Ret([TS(anyT) EXCEPT !.AboveTypeLine =
                                  indentedComment(<<"Named type ">> \o TypeString(ty)
                                                  \o <<" unknown, using \"any\"">>)
                                  \o <<"\n">>
                                  \o indentedComment(<<"eslint-disable-next-line @typescript-eslint/no-explicit-any -- External type">>)],
                              st)
                     ELSE With(typescriptType(w, g, Underlying(w, ty), st), LAMBDA u :
                              IF u.err # "" THEN Fail(u.err, u.st)
                              ELSE IF u.ts.AboveTypeLine = <<>>
                              THEN Ret([u.ts EXCEPT !.AboveTypeLine =
                                          indentedComment(
                                            <<"This is likely an enum in an external package (">>
                                            \o TypeString(ty) \o <<")">>)],
                                       u.st)
                              ELSE Ret(u.ts, u.st))
      [] ty.kind = "Pointer" ->
            With(typescriptType(w, g, ty.elem, st), LAMBDA resp :
                IF resp.err # "" THEN Fail(resp.err, resp.st)
                ELSE Ret([resp.ts EXCEPT !.Optional = TRUE], resp.st))
      [] ty.kind = "Interface" ->
            IF ty.empty
            THEN Ret([TS(anyT) EXCEPT !.AboveTypeLine =
                         indentedComment(<<"Empty interface{} type, cannot resolve the type.">>)
                         \o <<"\n">>
                         \o indentedComment(<<"eslint-disable-next-line @typescript-eslint/no-explicit-any -- interface{}">>)],
                     st)
            ELSE Ret([TS(anyT) EXCEPT !.AboveTypeLine =
                         indentedComment(<<"eslint-disable-next-line @typescript-eslint/no-explicit-any -- Golang interface, unable to resolve type.">>)],
                     st)
      [] ty.kind = "TypeParam" ->
            IF ~ty.iface THEN Fail("type param must be an interface", st)
            ELSE LET name == IF ty.cpath = ty.pkgPath \/ ty.cpath = <<>>
                             THEN ty.cname
                             ELSE ty.cpath \o <<".">> \o ty.cname
                     b == isBuiltIn(name)
                     bound == [TS(name) EXCEPT
                                  !.GenericTypes = MapPut(EmptyMap, ty.name, name),
                                  !.gtNil = FALSE,
                                  !.GenericValue = ty.name]
                 IN  IF InScope(w, g, name) THEN Ret(bound, st)
                     ELSE IF ~b.include
                     THEN Ret([TS(anyT) EXCEPT
                                  !.GenericTypes = MapPut(EmptyMap, ty.name, anyT),
                                  !.gtNil = FALSE,
                                  !.GenericValue = ty.name,
                                  !.AboveTypeLine =
                                      <<"// ">> \o name
                                      \o <<" is an external type, so we use any">>],
                              st)
                     ELSE Ret(bound,
                              [st EXCEPT !.builtins[g] = MapPut(@, name, b.str)])
      [] OTHER -> Fail("unknown type", st)

\* ------------------------------------------------------------------ records

\* A struct field: [name, embedded, type, tag]; tag.json and tag.typescript
\* are [present, name, options] (the value split at its commas).

\* reflect.StructTag(tag).Get("json")
TagGetJSON(tag) ==
    IF ~tag.json.present THEN <<>>
    ELSE tag.json.name
         \o (IF tag.json.options = <<>> THEN <<>>
             ELSE <<",">> \o Join(tag.json.options, <<",">>))

\* (*types.Var).Exported
Exported(name) == name # <<>> /\ InSeq(Upper, name[1])

\* func (g *Generator) posLine(obj types.Object) string
posLine(obj) == <<"// From ">> \o obj.pkg \o <<"/">> \o obj.file \o <<"\n">>

\* lines 539-551: the embedded fields that become extends clauses
extendedFields(obj) ==
    LET fs == obj.under.fields
    IN  {i \in 1..Len(fs) :
            /\ fs[i].embedded
            /\ TagGetJSON(fs[i].tag) = <<>>
            /\ obj.pkg = codersdk}

RECURSIVE SelectSeq2(_, _, _)
\* the elements of s at the indices of idx, in order
SelectSeq2(s, idx, i) ==
    IF i > Len(s) THEN <<>>
    ELSE (IF i \in idx THEN <<s[i]>> ELSE <<>>) \o SelectSeq2(s, idx, i + 1)

fieldNames(fs) == [i \in 1..Len(fs) |-> fs[i].name]

\* lines 632-642: genericsUsed keeps the first constraint of a name
MergeGenericsUsed(used, found) ==
    [x \in (DOMAIN used) \cup (DOMAIN found) |->
        IF x \in DOMAIN used THEN used[x] ELSE found[x]]

\* jsonSuppressed that suppresses no field
jsonSuppressedNever(json) == FALSE

\* lines 574-581: the serialization tag names the suppress value
jsonSuppressed(json) == json.present /\ json.name = <<"-">>

\* fieldOptional from the serialization tag alone
fieldOptionalTagOnly(jsonOptional, tsType) ==
    IF jsonOptional THEN <<"?">> ELSE <<>>

\* lines 619-622: the mark after the name of the field
fieldOptional(jsonOptional, tsType) ==
    IF jsonOptional \/ tsType.Optional THEN <<"?">> ELSE <<>>

\* lines 558-650: one iteration of the loop over the fields
\* acc: [Fields, genericsUsed, st, err]
buildField(w, g, obj, i, acc) ==
    LET field == obj.under.fields[i]
        json == field.tag.json
        tstag == field.tag.typescript
        skipJSON == jsonSuppressed(json)
        jsonOptional == json.present /\ json.options # <<>>
                        /\ json.options[1] = <<"omitempty">>
        jsonName == IF json.present /\ json.name # <<>> THEN json.name
                    ELSE field.name
    IN  IF i \in extendedFields(obj) \/ ~Exported(field.name) \/ skipJSON
        THEN acc
        ELSE With(typescriptType(w, g, field.type, acc.st), LAMBDA r :
                 IF r.err # "" THEN [acc EXCEPT !.err = r.err, !.st = r.st]
                 ELSE IF tstag.present /\ tstag.name = <<"-">>
                 THEN [acc EXCEPT !.st = r.st]
                 ELSE LET t1 == IF tstag.present /\ tstag.name # <<>>
                                THEN TS(tstag.name) ELSE r.ts
                          tsType == IF tstag.present /\ tstag.options # <<>>
                                       /\ tstag.options[1] = <<"notnull">>
                                    THEN [t1 EXCEPT !.Optional = FALSE] ELSE t1
                          optional == fieldOptional(jsonOptional, tsType)
                          valueType == IF tsType.GenericValue # <<>>
                                       THEN tsType.GenericValue
                                       ELSE tsType.ValueType
                          used == IF tsType.GenericValue # <<>>
                                  THEN MergeGenericsUsed(acc.genericsUsed,
                                                         tsType.GenericTypes)
                                  ELSE acc.genericsUsed
                          line == indent \o <<"readonly ">> \o jsonName \o optional
                                  \o <<": ">> \o valueType
                      IN  [Fields |-> acc.Fields
                                      \o (IF tsType.AboveTypeLine # <<>>
                                          THEN <<tsType.AboveTypeLine>> ELSE <<>>)
                                      \o <<line>>,
                           genericsUsed |-> used,
                           st |-> r.st,
                           err |-> ""])

RECURSIVE buildFields(_, _, _, _, _)
buildFields(w, g, obj, i, acc) ==
    IF i > Len(obj.under.fields) \/ acc.err # "" THEN acc
    ELSE With(buildField(w, g, obj, i, acc),
              LAMBDA a : buildFields(w, g, obj, i + 1, a))

\* structGenerics listing the bindings in the order of their names
structGenericsByName(obj, genericsUsed) ==
    LET params == obj.tparams
        names == SortStrings([i \in 1..Len(params) |-> params[i].name])
    IN  IF \E i \in 1..Len(params) : params[i].name \notin DOMAIN genericsUsed
        THEN [err |-> "generic param missing", Generics |-> <<>>]
        ELSE [err |-> "",
              Generics |-> [i \in 1..Len(names) |->
                              names[i] \o <<" extends ">> \o genericsUsed[names[i]]]]

\* structGenerics leaving out a parameter no field binds
structGenericsSkipMissing(obj, genericsUsed) ==
    LET params == obj.tparams
        bound == SelectSeq(params, LAMBDA q : q.name \in DOMAIN genericsUsed)
    IN  [err |-> "",
         Generics |-> [i \in 1..Len(bound) |->
                         bound[i].name \o <<" extends ">>
                         \o genericsUsed[bound[i].name]]]

\* lines 666-687: the generic parameters, in the order of the declaration
structGenerics(obj, genericsUsed) ==
    LET params == obj.tparams
    IN  IF \E i \in 1..Len(params) : params[i].name \notin DOMAIN genericsUsed
        THEN [err |-> "generic param missing", Generics |-> <<>>]
        ELSE [err |-> "",
              Generics |-> [i \in 1..Len(params) |->
                              params[i].name \o <<" extends ">>
                              \o genericsUsed[params[i].name]]]

\* const structTemplate
structTemplate(state) ==
    state.PosLine
    \o (IF state.AboveLine # <<>> THEN state.AboveLine \o <<"\n">> ELSE <<>>)
    \o <<"export interface ">> \o state.Name
    \o (IF state.Generics # <<>>
        THEN <<"<">> \o Join(state.Generics, <<", ">>) \o <<">">> ELSE <<>>)
    \o (IF state.Extends # <<>> THEN <<" extends ">> \o state.Extends ELSE <<>>)
    \o <<" {\n">> \o Join(state.Fields, <<"\n">>) \o <<"\n}", "\n">>

\* func (g *Generator) buildStruct(obj types.Object, st *types.Struct) (string, error)
\* Returns the code block, the error, the generators' state and the
\* structTemplateState the block was rendered from.
buildStruct(w, g, obj, st) ==
    With(buildFields(w, g, obj, 1,
            [Fields |-> <<>>, genericsUsed |-> EmptyMap, st |-> st, err |-> ""]),
         LAMBDA fs :
    With(structGenerics(obj, fs.genericsUsed), LAMBDA gen :
    With([PosLine |-> posLine(obj),
          Name |-> objName(obj.pkg, obj.name),
          Fields |-> fs.Fields,
          Generics |-> gen.Generics,
          Extends |-> Join(SelectSeq2(fieldNames(obj.under.fields),
                                      extendedFields(obj), 1), <<", ">>),
          AboveLine |-> <<>>], LAMBDA state :
        LET none == [PosLine |-> <<>>, Name |-> <<>>, Fields |-> <<>>,
                     Generics |-> <<>>, Extends |-> <<>>, AboveLine |-> <<>>]
        IN  IF fs.err # ""
            THEN [block |-> <<>>, err |-> fs.err, st |-> fs.st, state |-> none]
            ELSE IF gen.err # ""
            THEN [block |-> <<>>, err |-> gen.err, st |-> fs.st, state |-> none]
            ELSE [block |-> structTemplate(state), err |-> "", st |-> fs.st,
                  state |-> state])))

\* ------------------------------------------------------------------ unions

\* slice.Unique (coderd/util/slice): the first occurrence of every element
RECURSIVE Unique(_)
Unique(s) ==
    IF s = <<>> THEN <<>>
    ELSE With(Unique(SubSeq(s, 1, Len(s) - 1)), LAMBDA front :
             IF InSeq(front, s[Len(s)]) THEN front ELSE Append(front, s[Len(s)]))

\* lines 487-495: the loop over the terms; acc: [allTypes, optional, st, err]
RECURSIVE unionTerms(_, _, _, _, _)
unionTerms(w, g, terms, i, acc) ==
    IF i > Len(terms) \/ acc.err # "" THEN acc
    ELSE With(typescriptType(w, g, terms[i], acc.st), LAMBDA r :
         With(IF r.err # "" THEN [acc EXCEPT !.err = r.err, !.st = r.st]
              ELSE [allTypes |-> Append(acc.allTypes, r.ts.ValueType),
                    optional |-> acc.optional \/ r.ts.Optional,
                    st |-> r.st,
                    err |-> ""],
              LAMBDA a : unionTerms(w, g, terms, i + 1, a)))

\* func (g *Generator) buildUnion(obj types.Object, st *types.Union) (string, error)
buildUnion(w, g, obj, terms, st) ==
    With(unionTerms(w, g, terms, 1,
            [allTypes |-> <<>>, optional |-> FALSE, st |-> st, err |-> ""]),
         LAMBDA t :
    With(Unique(IF t.optional THEN Append(t.allTypes, <<"null">>)
                ELSE t.allTypes), LAMBDA allTypes :
        IF t.err # "" THEN [block |-> <<>>, err |-> t.err, st |-> t.st]
        ELSE [block |-> posLine(obj) \o <<"export type ">>
                        \o objName(obj.pkg, obj.name) \o <<" = ">>
                        \o Join(allTypes, <<" | ">>) \o <<"\n">>,
              err |-> "", st |-> t.st]))

\* ------------------------------------------------------------------ scopes

\* constant.Value.String() of a string constant
Quote(val) == <<"\"">> \o val \o <<"\"">>

\* strings.TrimSpace
RECURSIVE TrimLeft(_)
TrimLeft(s) == IF s # <<>> /\ s[1] = " " THEN TrimLeft(Tail(s)) ELSE s
RECURSIVE TrimRight(_)
TrimRight(s) ==
    IF s # <<>> /\ s[Len(s)] = " " THEN TrimRight(SubSeq(s, 1, Len(s) - 1)) ELSE s
TrimSpace(s) == TrimRight(TrimLeft(s))

\* strings.Split(s, ",")
RECURSIVE Split(_, _)
Split(s, cur) ==
    IF s = <<>> THEN <<cur>>
    ELSE IF s[1] = "," THEN <<cur>> \o Split(Tail(s), <<>>)
    ELSE Split(Tail(s), Append(cur, s[1]))

\* A comment line: [marker, rest]: the directive it holds ("ignore",
\* "generate" or "none") and the text that follows the directive's name.
\* The names a regexp "@typescript-<marker>[:]?(.*)" puts into the set.
DirectiveNames(g, w, marker) ==
    LET lines == w.gens[g].comments
        captured(l) == IF l.rest # <<>> /\ l.rest[1] = ":" THEN Tail(l.rest)
                       ELSE l.rest
        names(l) == LET arr == Split(captured(l), <<>>)
                    IN  {TrimSpace(arr[i]) : i \in 1..Len(arr)}
    IN  UNION {names(lines[i]) :
                 i \in {j \in 1..Len(lines) :
                          lines[j].marker = marker /\ captured(lines[j]) # <<>>}}

\* lines 251-253 and 273-289: m.AllowedTypes
AllowedTypes(w, g, st) ==
    {TrimSpace(st.allowList[g][i]) : i \in 1..Len(st.allowList[g])}
    \cup DirectiveNames(g, w, "generate")

\* lines 255-271: m.IgnoredTypes
IgnoredTypes(w, g) == DirectiveNames(g, w, "ignore")

\* Passes without the test of the ignore set
PassesAllowedOnly(w, g, m, obj) ==
    \/ ~((m.AllowedTypes # {} \/ w.gens[g].onlyOptIn)
          /\ obj.name \notin m.AllowedTypes)
    \/ obj.obj = "Const"

\* Passes without the test of the allowed set
PassesUnrestricted(w, g, m, obj) == obj.name \notin m.IgnoredTypes

\* lines 372-385: the filter of generateOne (TRUE: the object is generated)
Passes(w, g, m, obj) ==
    /\ obj.name \notin m.IgnoredTypes
    /\ \/ ~((m.AllowedTypes # {} \/ w.gens[g].onlyOptIn)
            /\ obj.name \notin m.AllowedTypes)
       \/ obj.obj = "Const"

\* unsupportedNamed that drops the declaration as a function type is dropped
unsupportedNamedDropped(m, st) == [m |-> m, st |-> st, err |-> ""]

\* lines 451-456: a named type of a shape generateOne has no case for
unsupportedNamed(m, st) == [m |-> m, st |-> st, err |-> "unsupported named type"]

\* func (g *Generator) generateOne(m *Maps, obj types.Object) error
\* Returns [m, st, err].
generateOne(w, g, m, obj, st) ==
    LET objectName == objName(obj.pkg, obj.name)
        same == [m |-> m, st |-> st, err |-> ""]
    IN  IF ~Passes(w, g, m, obj) THEN same
        ELSE CASE obj.obj = "TypeName" ->
               (CASE obj.under.kind = "Struct" ->
                       With(buildStruct(w, g, obj, st), LAMBDA b :
                           IF b.err # "" THEN [m |-> m, st |-> b.st, err |-> b.err]
                           ELSE [m |-> [m EXCEPT !.Structs =
                                           MapPut(@, objectName, b.block)],
                                 st |-> b.st, err |-> ""])
                  [] obj.under.kind = "Basic" ->
                       [m |-> [m EXCEPT !.Enums = MapPut(@, objectName, obj)],
                        st |-> st, err |-> ""]
                  [] obj.under.kind \in {"Map", "Array", "Slice"} ->
                       With(typescriptType(w, g, obj.under, st), LAMBDA r :
                           IF r.err # "" THEN [m |-> m, st |-> r.st, err |-> r.err]
                           ELSE [m |-> [m EXCEPT !.Structs =
                                    MapPut(@, objectName,
                                       posLine(obj)
                                       \o (IF r.ts.AboveTypeLine # <<>>
                                           THEN r.ts.AboveTypeLine \o <<"\n">>
                                           ELSE <<>>)
                                       \o <<"export type ">> \o objectName
                                       \o <<" = ">> \o r.ts.ValueType \o <<"\n">>)],
                                 st |-> r.st, err |-> ""])
                  [] obj.under.kind = "Interface" ->
                       IF Len(obj.under.embeddeds) = 1
                       THEN LET e == obj.under.embeddeds[1]
                                terms == IF e.kind = "Union" THEN e.terms ELSE <<e>>
                            IN  With(buildUnion(w, g, obj, terms, st), LAMBDA b :
                                IF b.err # ""
                                THEN [m |-> m, st |-> b.st, err |-> b.err]
                                ELSE [m |-> [m EXCEPT !.Generics =
                                                MapPut(@, objectName, b.block)],
                                      st |-> b.st, err |-> ""])
                       ELSE same
                  [] obj.under.kind = "Signature" -> same
                  [] OTHER -> unsupportedNamed(m, st))
               [] obj.obj = "Const" ->
                    IF obj.ctype.kind = "Named"
                    THEN LET enumObjName == objName(obj.ctype.pkg, obj.ctype.name)
                             old == IF enumObjName \in DOMAIN m.EnumConsts
                                    THEN m.EnumConsts[enumObjName] ELSE <<>>
                         IN  [m |-> [m EXCEPT !.EnumConsts =
                                        MapPut(@, enumObjName, Append(old, obj))],
                              st |-> st, err |-> ""]
                    ELSE same
               [] OTHER -> same

\* lines 291-297: the loop over Scope().Names(); acc: [m, st, err]
RECURSIVE generateNames(_, _, _, _)
generateNames(w, g, i, acc) ==
    IF i > Len(w.gens[g].names) \/ acc.err # "" THEN acc
    ELSE With(generateOne(w, g, acc.m, w.gens[g].decls[w.gens[g].names[i]],
                          acc.st),
              LAMBDA a : generateNames(w, g, i + 1, a))

\* pluralName that always appends "s"
pluralNameS(name) == name \o <<"s">>

\* lines 327-332
pluralName(name) ==
    IF HasSuffix(name, <<"s">>) THEN name \o <<"e", "s">> ELSE name \o <<"s">>

\* lines 309-315: the values of the constants of an enum
enumValues(m, name) ==
    LET consts == IF name \in DOMAIN m.EnumConsts THEN m.EnumConsts[name] ELSE <<>>
    IN  With([i \in 1..Len(consts) |-> Quote(consts[i].val)], SortStrings)

\* lines 316-339: the code block of an enum
enumCodeBlock(m, name) ==
    With(enumValues(m, name), LAMBDA values :
        LET joined == IF Join(values, <<" | ">>) = <<>> THEN <<"never">>
                      ELSE Join(values, <<" | ">>)
        IN  posLine(m.Enums[name])
            \o <<"export type ">> \o name \o <<" = ">> \o joined \o <<"\n">>
            \o <<"export const ">> \o pluralName(name) \o <<": ">> \o name
            \o <<"[] = [">> \o Join(values, <<", ">>) \o <<"]", "\n">>)

\* func (g *Generator) generateAll() (*TypescriptTypes, error)
\* Returns [ts, err, st]; ts is [Types, Enums, Generics].
NoTypes == [Types |-> EmptyMap, Enums |-> EmptyMap, Generics |-> EmptyMap]

\* generateAll that adds the builtins the generator held before the pass
generateAllEarlyBuiltins(w, g, st) ==
    With([m |-> [Structs |-> EmptyMap, Generics |-> EmptyMap, Enums |-> EmptyMap,
                 EnumConsts |-> EmptyMap,
                 IgnoredTypes |-> IgnoredTypes(w, g),
                 AllowedTypes |-> AllowedTypes(w, g, st)],
          st |-> st, err |-> ""], LAMBDA acc0 :
    With(generateNames(w, g, 1, acc0), LAMBDA r :
        LET used == st.builtins[g]
            generics == MapMerge(r.m.Generics,
                           [n \in {x \in DOMAIN used : used[x] # <<>>} |->
                              used[n]])
        IN  IF r.err # "" THEN [ts |-> NoTypes, err |-> r.err, st |-> r.st]
            ELSE [ts |-> [Types |-> r.m.Structs,
                          Enums |-> [n \in DOMAIN r.m.Enums |->
                                       enumCodeBlock(r.m, n)],
                          Generics |-> generics],
                  err |-> "", st |-> r.st]))

generateAll(w, g, st) ==
    With([m |-> [Structs |-> EmptyMap, Generics |-> EmptyMap, Enums |-> EmptyMap,
                 EnumConsts |-> EmptyMap,
                 IgnoredTypes |-> IgnoredTypes(w, g),
                 AllowedTypes |-> AllowedTypes(w, g, st)],
          st |-> st, err |-> ""], LAMBDA acc0 :
    With(generateNames(w, g, 1, acc0), LAMBDA r :
        LET used == r.st.builtins[g]
            generics == MapMerge(r.m.Generics,
                           [n \in {x \in DOMAIN used : used[x] # <<>>} |->
                              used[n]])
        IN  IF r.err # "" THEN [ts |-> NoTypes, err |-> r.err, st |-> r.st]
            ELSE [ts |-> [Types |-> r.m.Structs,
                          Enums |-> [n \in DOMAIN r.m.Enums |->
                                       enumCodeBlock(r.m, n)],
                          Generics |-> generics],
                  err |-> "", st |-> r.st]))

\* ------------------------------------------------------------------ output

\* The orders in which `for k := range m` may yield the keys of a map.
RECURSIVE KeyOrders(_)
KeyOrders(keys) ==
    IF keys = {} THEN {<<>>}
    ELSE UNION {{<<k>> \o rest : rest \in KeyOrders(keys \ {k})} : k \in keys}

\* strings.TrimRight(s, "\n")
RECURSIVE TrimNewlines(_)
TrimNewlines(s) ==
    IF s # <<>> /\ s[Len(s)] = "\n" THEN TrimNewlines(SubSeq(s, 1, Len(s) - 1))
    ELSE s

\* lines 136-152: the blocks of one map, each followed by a line break
RECURSIVE WriteBlocks(_, _)
WriteBlocks(m, keys) ==
    IF keys = <<>> THEN <<>>
    ELSE m[keys[1]] \o <<"\n">> \o WriteBlocks(m, Tail(keys))

\* sortedKeys without the calls of sort.Strings
sortedKeysAsRanged(order) == order

\* lines 118-134: the keys of a map as ranged over (order) and then sorted
sortedKeys(order) == SortStrings(order)

\* String writing the enums before the records
StringEnumsFirst(t, iter) ==
    With(With(sortedKeys(iter.Enums), LAMBDA ks : WriteBlocks(t.Enums, ks))
         \o With(sortedKeys(iter.Types), LAMBDA ks : WriteBlocks(t.Types, ks))
         \o With(sortedKeys(iter.Generics),
                 LAMBDA ks : WriteBlocks(t.Generics, ks)),
         TrimNewlines)

\* func (t TypescriptTypes) String() string
\* iter: the orders in which the three maps are ranged over.
String(t, iter) ==
    With(With(sortedKeys(iter.Types), LAMBDA ks : WriteBlocks(t.Types, ks))
         \o With(sortedKeys(iter.Enums), LAMBDA ks : WriteBlocks(t.Enums, ks))
         \o With(sortedKeys(iter.Generics),
                 LAMBDA ks : WriteBlocks(t.Generics, ks)),
         TrimNewlines)

\* The iteration orders a call of String may meet.
Iters(t) ==
    {[Types |-> a, Enums |-> b, Generics |-> c] :
        a \in KeyOrders(DOMAIN t.Types),
        b \in KeyOrders(DOMAIN t.Enums),
        c \in KeyOrders(DOMAIN t.Generics)}

\* ------------------------------------------------------------------ inputs

\* constructors of go/types values
BasicT(name, numeric, boolean, bkind) ==
    [kind |-> "Basic", bname |-> name, numeric |-> numeric, boolean |-> boolean,
     bkind |-> bkind]
StringT == BasicT("string", FALSE, FALSE, "String")
IntT == BasicT("int", TRUE, FALSE, "Int")
BoolT == BasicT("bool", FALSE, TRUE, "Bool")
\* byte is an alias of uint8: the same kind under two names
ByteT == BasicT("byte", TRUE, FALSE, "Uint8")
Uint8T == BasicT("uint8", TRUE, FALSE, "Uint8")
NamedT(path, pkg, name, args) ==
    [kind |-> "Named", path |-> path, pkg |-> pkg, name |-> name, args |-> args]
PointerT(elem) == [kind |-> "Pointer", elem |-> elem]
SliceT(elem) == [kind |-> "Slice", elem |-> elem]
ArrayT(elem) == [kind |-> "Array", elem |-> elem]
MapT(key, elem) == [kind |-> "Map", key |-> key, elem |-> elem]
ChanT(elem) == [kind |-> "Chan", elem |-> elem]
StructT(fields) == [kind |-> "Struct", fields |-> fields]
InterfaceT(embeddeds) ==
    [kind |-> "Interface", empty |-> embeddeds = <<>>, embeddeds |-> embeddeds]
SignatureT == [kind |-> "Signature"]
UnionT(terms) == [kind |-> "Union", terms |-> terms]
\* a type parameter of a declaration of package pkgPath with constraint
\* cpath.cname (cpath empty: a predeclared constraint)
TypeParamT(name, pkgPath, cpath, cname) ==
    [kind |-> "TypeParam", name |-> name, pkgPath |-> pkgPath, cpath |-> cpath,
     cname |-> cname, iface |-> TRUE]

NoTag == [present |-> FALSE, name |-> <<>>, options |-> <<>>]
Tag(name, options) == [present |-> TRUE, name |-> name, options |-> options]
NoTags == [json |-> NoTag, typescript |-> NoTag]
FieldOf(name, embedded, type, tag) ==
    [name |-> name, embedded |-> embedded, type |-> type, tag |-> tag]
PlainField(name, type) == FieldOf(name, FALSE, type, NoTags)

goFile == <<"f.go">>
TypeDecl(pkg, name, under, tparams) ==
    [name |-> name, obj |-> "TypeName", pkg |-> pkg, file |-> goFile,
     under |-> under, tparams |-> tparams, ctype |-> StringT, val |-> <<>>]
ConstDecl(pkg, name, ctype, val) ==
    [name |-> name, obj |-> "Const", pkg |-> pkg, file |-> goFile,
     under |-> StringT, tparams |-> <<>>, ctype |-> ctype, val |-> val]

\* The package a Generator parsed; Scope().Names() is sorted.
MkGen(pkgName, pkgPath, onlyOptIn, externals, decls, comments) ==
    [pkgName |-> pkgName, pkgPath |-> pkgPath, onlyOptIn |-> onlyOptIn,
     externals |-> externals,
     names |-> SortStrings([i \in 1..Len(decls) |-> decls[i].name]),
     decls |-> [n \in {decls[i].name : i \in 1..Len(decls)} |->
                  decls[CHOOSE i \in 1..Len(decls) : decls[i].name = n]],
     comments |-> comments]

\* var baseDirs, externalTypePkgs (the generators are named by package)
baseDirs == <<"codersdk", "healthsdk">>
externalTypePkgs == <<"health", "serpent">>

\* ------------------------------------------------------------------ main

VARIABLES
    world,        \* the packages the run parses (the input)
    allowList,    \* Generator.allowList, per generator
    builtins,     \* Generator.builtins, per generator
    cachedResult, \* Generator.cachedResult, per base directory ("none": unset)
    pc,           \* the position of main
    baseIdx,      \* the index of the loop over baseDirs
    extIdx,       \* the index i of the loop over external
    out,          \* what main has printed, one element per Print call
    passLog,      \* per external generator, its calls of generateAll:
                  \* [before, after, ts] (the allow-list around the call)
    call,         \* the call a function-level specification applies
    ret           \* and what it returned

vars == <<world, allowList, builtins, cachedResult, pc, baseIdx, extIdx, out,
          passLog, call, ret>>

St == [allowList |-> allowList, builtins |-> builtins]
Gens(w) == DOMAIN w.gens
InitialSt(w) ==
    [allowList |-> [g \in Gens(w) |-> <<>>],
     builtins |-> [g \in Gens(w) |-> EmptyMap]]

\* names of the declarations of the input packages
nA == <<"A">>
nB == <<"B">>
nG == <<"G">>
nO == <<"O">>
nT == <<"T">>
nX == <<"X">>
nY == <<"Y">>
nZ == <<"Z">>
nN == <<"N">>

HealthT(name) == NamedT(healthPath, health, name, <<>>)
SerpentT(name) == NamedT(serpentPath, serpent, name, <<>>)

\* The most fields with which A refers to external types.
MaxRefs == 2

\* field i of a struct, of the given type
RefField(i, type) == PlainField(<<"F", CHOOSE c \in {"a", "b", "c", "d"} :
                                        c = <<"a", "b", "c", "d">>[i]>>, type)

RefSeqs(targets, n) ==
    UNION {[1..k -> targets] : k \in 0..n}

\* package health: X refers to the types xRefs; Y has the shape yShape; Z
\* refers to itself; an optional directive ignores Y.
HealthGen(xRefs, yShape, ignoreY) ==
    LET leaf == PlainField(nN, StringT)
        X == TypeDecl(health, nX,
                StructT(<<leaf>> \o [i \in 1..Len(xRefs) |-> RefField(i, xRefs[i])]),
                <<>>)
        Y == CASE yShape = "leaf" -> <<TypeDecl(health, nY, StructT(<<leaf>>), <<>>)>>
               [] yShape = "refZ" ->
                    <<TypeDecl(health, nY,
                        StructT(<<PlainField(nZ, SliceT(HealthT(nZ)))>>), <<>>)>>
               [] yShape = "enum" ->
                    <<TypeDecl(health, nY, StringT, <<>>),
                      ConstDecl(health, <<"Y", "b">>, HealthT(nY), <<"b">>),
                      ConstDecl(health, <<"Y", "a">>, HealthT(nY), <<"a">>)>>
               [] yShape = "chan" ->
                    <<TypeDecl(health, nY, ChanT(StringT), <<>>)>>
               [] yShape = "unused" ->
                    <<TypeDecl(health, nY, StructT(<<leaf>>),
                        <<TypeParamT(nT, healthPath, <<>>, anyT)>>)>>
               [] OTHER -> <<TypeDecl(health, nY, SignatureT, <<>>)>>
        Z == TypeDecl(health, nZ,
                StructT(<<leaf, PlainField(<<"N", "e", "x", "t">>,
                                           PointerT(HealthT(nZ)))>>), <<>>)
    IN  MkGen(health, healthPath, TRUE, <<>>, <<Z>> \o Y \o <<X>>,
              IF ignoreY
              THEN <<[marker |-> "ignore", rest |-> <<" ", "Y">>]>>
              ELSE <<>>)

YShapes == {"leaf", "refZ", "enum", "chan", "unused", "func"}

\* package serpent: O refers to G.
SerpentGen ==
    MkGen(serpent, serpentPath, TRUE, <<>>,
          <<TypeDecl(serpent, nO, StructT(<<PlainField(nG, SerpentT(nG))>>), <<>>),
            TypeDecl(serpent, nG, StructT(<<PlainField(nN, StringT)>>), <<>>)>>,
          <<>>)

\* package codersdk: A refers to the external types refs; with unused, A
\* declares a type parameter that no field uses.
CodersdkGen(refs, unused) ==
    MkGen(codersdk, codersdkPath, FALSE, externalTypePkgs,
          <<TypeDecl(codersdk, nA,
               StructT(<<PlainField(nN, StringT)>>
                       \o [i \in 1..Len(refs) |-> RefField(i, refs[i])]),
               IF unused THEN <<TypeParamT(nT, codersdkPath, <<>>, anyT)>>
               ELSE <<>>)>>,
          <<>>)

\* package healthsdk: B refers to the external types refs.
HealthsdkGen(refs) ==
    MkGen(healthsdk, healthsdkPath, FALSE, externalTypePkgs,
          <<TypeDecl(healthsdk, nB,
               StructT(<<PlainField(nN, StringT)>>
                       \o [i \in 1..Len(refs) |-> RefField(i, refs[i])]),
               <<>>)>>,
          <<>>)

MkWorld(c, hs, h, sp) ==
    [gens |-> [g \in {"codersdk", "healthsdk", "health", "serpent"} |->
                 CASE g = "codersdk" -> c
                   [] g = "healthsdk" -> hs
                   [] g = "health" -> h
                   [] OTHER -> sp],
     foreign |-> EmptyMap]

\* The inputs of the runs of main.
Worlds ==
    {MkWorld(CodersdkGen(aRefs, unused), HealthsdkGen(bRefs),
             HealthGen(xRefs, yShape, ignoreY), SerpentGen) :
        aRefs \in RefSeqs({HealthT(nX), HealthT(nY), SerpentT(nO)}, MaxRefs),
        unused \in BOOLEAN,
        bRefs \in RefSeqs({HealthT(nZ)}, 1),
        xRefs \in RefSeqs({HealthT(nY), PointerT(HealthT(nZ))}, 1),
        yShape \in YShapes,
        ignoreY \in BOOLEAN}

Idle == [fn |-> "none"]

Init ==
    /\ world \in Worlds
    /\ allowList = InitialSt(world).allowList
    /\ builtins = InitialSt(world).builtins
    /\ cachedResult = [g \in {baseDirs[i] : i \in 1..Len(baseDirs)} |-> NoTypes]
    /\ pc = "header"
    /\ baseIdx = 1
    /\ extIdx = 1
    /\ out = <<>>
    /\ passLog = [g \in {externalTypePkgs[i] : i \in 1..Len(externalTypePkgs)} |-> <<>>]
    /\ call = Idle
    /\ ret = Idle

scopeHeader(dir) == <<"// The code below is generated from ">> \o <<dir>> \o <<".\n\n">>

\* line 59
Header ==
    /\ pc = "header"
    /\ out' = Append(out, <<"// Code generated by 'make site/src/api/typesGenerated.ts'. DO NOT EDIT.\n\n">>)
    /\ pc' = "base"
    /\ UNCHANGED <<world, allowList, builtins, cachedResult, baseIdx, extIdx,
                   passLog, call, ret>>

\* lines 60-69, Generate and GenerateFromDirectory: one base directory
GenerateBase ==
    /\ pc = "base"
    /\ \E g \in {baseDirs[baseIdx]} : \E r \in {generateAll(world, g, St)} :
           /\ allowList' = r.st.allowList
           /\ builtins' = r.st.builtins
           /\ IF r.err # ""
              THEN /\ out' = Append(out, scopeHeader(g))
                   /\ pc' = "fatal"
                   /\ UNCHANGED <<cachedResult, baseIdx>>
              ELSE /\ \E iter \in Iters(r.ts) :
                        out' = out \o <<scopeHeader(g),
                                        String(r.ts, iter) \o <<"\n\n">>>>
                   /\ cachedResult' = [cachedResult EXCEPT ![g] = r.ts]
                   /\ baseIdx' = baseIdx + 1
                   /\ pc' = IF baseIdx = Len(baseDirs) THEN "ext" ELSE "base"
    /\ UNCHANGED <<world, extIdx, passLog, call, ret>>

\* ExternalPass without the test of line 80: the loop ends after one pass
ExternalPassOnce(g) ==
    With(generateAll(world, g, St), LAMBDA r :
        [r |-> r,
         grew |-> FALSE,
         log |-> [before |-> allowList[g], after |-> r.st.allowList[g],
                  ts |-> r.ts, err |-> r.err]])

\* lines 73-86: one iteration of the loop around ext.generateAll
ExternalPass(g) ==
    With(generateAll(world, g, St), LAMBDA r :
        [r |-> r,
         grew |-> Len(r.st.allowList[g]) # Len(allowList[g]),
         log |-> [before |-> allowList[g], after |-> r.st.allowList[g],
                  ts |-> r.ts, err |-> r.err]])

\* lines 77-79
ExternalFatal ==
    /\ pc = "ext"
    /\ \E g \in {externalTypePkgs[extIdx]} : \E p \in {ExternalPass(g)} :
           /\ p.r.err # ""
           /\ allowList' = p.r.st.allowList
           /\ builtins' = p.r.st.builtins
           /\ passLog' = [passLog EXCEPT ![g] = Append(@, p.log)]
           /\ pc' = "fatal"
    /\ UNCHANGED <<world, cachedResult, baseIdx, extIdx, out, call, ret>>

\* lines 80-84
ExternalAgain ==
    /\ pc = "ext"
    /\ \E g \in {externalTypePkgs[extIdx]} : \E p \in {ExternalPass(g)} :
           /\ p.r.err = ""
           /\ p.grew
           /\ allowList' = p.r.st.allowList
           /\ builtins' = p.r.st.builtins
           /\ passLog' = [passLog EXCEPT ![g] = Append(@, p.log)]
    /\ UNCHANGED <<world, cachedResult, pc, baseIdx, extIdx, out, call, ret>>

\* lines 85-90
ExternalDone ==
    /\ pc = "ext"
    /\ \E g \in {externalTypePkgs[extIdx]} : \E p \in {ExternalPass(g)} :
           /\ p.r.err = ""
           /\ ~p.grew
           /\ allowList' = p.r.st.allowList
           /\ builtins' = p.r.st.builtins
           /\ passLog' = [passLog EXCEPT ![g] = Append(@, p.log)]
           /\ \E iter \in Iters(p.r.ts) :
                 out' = out \o <<scopeHeader(g), String(p.r.ts, iter) \o <<"\n\n">>>>
    /\ extIdx' = extIdx + 1
    /\ pc' = IF extIdx = Len(externalTypePkgs) THEN "done" ELSE "ext"
    /\ UNCHANGED <<world, cachedResult, baseIdx, call, ret>>

Next == Header \/ GenerateBase \/ ExternalFatal \/ ExternalAgain \/ ExternalDone

Spec == Init /\ [][Next]_vars

\* ------------------------------------------------------------------ calls

\* The specifications below apply one function of the generator to inputs
\* drawn from a family: call holds the arguments, ret what it returned.

nS == <<"S">>
nK == <<"K">>
nU == <<"U">>
nP == <<"P">>
nQ == <<"Q">>
nR == <<"R">>

\* The packages around the declaration a call is about: codersdk declares
\* the record A and the scalar alias K, healthsdk the record B, health the
\* record X.
CallWorld ==
    MkWorld(MkGen(codersdk, codersdkPath, FALSE, externalTypePkgs,
                  <<TypeDecl(codersdk, nA, StructT(<<PlainField(nN, StringT)>>), <<>>),
                    TypeDecl(codersdk, nK, StringT, <<>>)>>,
                  <<>>),
            HealthsdkGen(<<>>),
            HealthGen(<<>>, "leaf", FALSE),
            SerpentGen)

InitCall(w, calls) ==
    /\ world = w
    /\ allowList = InitialSt(world).allowList
    /\ builtins = InitialSt(world).builtins
    /\ cachedResult = [g \in {baseDirs[i] : i \in 1..Len(baseDirs)} |-> NoTypes]
    /\ pc = "call"
    /\ baseIdx = 1
    /\ extIdx = 1
    /\ out = <<>>
    /\ passLog = [g \in {externalTypePkgs[i] : i \in 1..Len(externalTypePkgs)} |-> <<>>]
    /\ call \in calls
    /\ ret = Idle

\* ---- typescriptType

CodersdkT(name) == NamedT(codersdkPath, codersdk, name, <<>>)
HealthsdkT(name) == NamedT(healthsdkPath, healthsdk, name, <<>>)
TimeT == NamedT(timePath, <<"t", "i", "m", "e">>, <<"T", "i", "m", "e">>, <<>>)
NullTimeT == NamedT(sqlPath, <<"s", "q", "l">>,
                    <<"N", "u", "l", "l", "T", "i", "m", "e">>, <<>>)
\* a type parameter with the constraint any, of a declaration of package path
ParamT(name, path) == TypeParamT(name, path, <<>>, anyT)

TypeLeaves ==
    {StringT, IntT, BoolT, ByteT, Uint8T, CodersdkT(nA), CodersdkT(nK), TimeT,
     NullTimeT, HealthT(nX), InterfaceT(<<>>), StructT(<<>>),
     ParamT(nT, codersdkPath), ChanT(StringT)}

\* The most type constructors around a leaf.
MaxDepth == 2

RECURSIVE TypesOfDepth(_)
TypesOfDepth(d) ==
    IF d = 0 THEN TypeLeaves
    ELSE With(TypesOfDepth(d - 1), LAMBDA S :
             S \cup {SliceT(e) : e \in S} \cup {ArrayT(e) : e \in S}
               \cup {PointerT(e) : e \in S} \cup {MapT(StringT, e) : e \in S})

InitType ==
    InitCall(CallWorld,
             {[fn |-> "typescriptType", g |-> "codersdk", ty |-> ty] :
                 ty \in TypesOfDepth(MaxDepth)})

ApplyTypescriptType ==
    /\ pc = "call"
    /\ call.fn = "typescriptType"
    /\ \E r \in {typescriptType(world, call.g, call.ty, St)} :
          /\ ret' = r
          /\ allowList' = r.st.allowList
          /\ builtins' = r.st.builtins
    /\ pc' = "ret"
    /\ UNCHANGED <<world, cachedResult, baseIdx, extIdx, out, passLog, call>>

SpecType == InitType /\ [][ApplyTypescriptType]_vars

\* ---- buildStruct

JsonTag(name, options) == [json |-> Tag(name, options), typescript |-> NoTag]
TsTag(name, options) == [json |-> NoTag, typescript |-> Tag(name, options)]
Embedded(type, tag) == FieldOf(type.name, TRUE, type, tag)
EmbeddedPtr(type, tag) == FieldOf(type.name, TRUE, PointerT(type), tag)

\* The fields of the records that are built, in a package of path p.
FieldPool(p) ==
    {PlainField(nN, StringT),
     PlainField(nP, PointerT(StringT)),
     FieldOf(nP, FALSE, PointerT(StringT), JsonTag(<<"p">>, <<>>)),
     FieldOf(nP, FALSE, PointerT(StringT), JsonTag(<<"p">>, <<<<"omitempty">>>>)),
     FieldOf(nP, FALSE, PointerT(StringT), TsTag(<<"F", "o", "o">>, <<>>)),
     FieldOf(nP, FALSE, PointerT(StringT), TsTag(<<>>, <<<<"notnull">>>>)),
     PlainField(nQ, PointerT(NullTimeT)),
     PlainField(nR, PointerT(ParamT(nT, p))),
     PlainField(<<"F", "t">>, ParamT(nT, p)),
     PlainField(<<"F", "u">>, ParamT(nU, p)),
     PlainField(<<"F", "s">>, SliceT(ParamT(nU, p))),
     Embedded(CodersdkT(nA), NoTags),
     Embedded(CodersdkT(nA), JsonTag(<<"a">>, <<>>)),
     EmbeddedPtr(CodersdkT(nA), NoTags),
     Embedded(HealthsdkT(nB), NoTags),
     Embedded(HealthsdkT(nB), JsonTag(<<"b">>, <<>>)),
     Embedded(HealthT(nX), NoTags),
     Embedded(CodersdkT(nK), NoTags),
     FieldOf(<<"F", "c">>, FALSE, ChanT(StringT), JsonTag(<<"-">>, <<>>)),
     FieldOf(<<"F", "c">>, FALSE, HealthT(nX), JsonTag(<<"-">>, <<>>)),
     FieldOf(<<"F", "t">>, FALSE, ParamT(nT, p), JsonTag(<<"-">>, <<>>)),
     Embedded(CodersdkT(nA), JsonTag(<<"-">>, <<>>))}

\* The most fields of a record that is built.
MaxFields == 2

\* sequences of at most n fields of the pool with different names
FieldSeqs(pool, n) ==
    {fs \in UNION {[1..k -> pool] : k \in 0..n} :
        \A i, j \in 1..Len(fs) : i # j => fs[i].name # fs[j].name}

\* the lists of type parameters a record declares
ParamLists(p) ==
    {<<>>, <<ParamT(nT, p)>>, <<ParamT(nT, p), ParamT(nU, p)>>,
     <<ParamT(nU, p), ParamT(nT, p)>>}

StructCalls(g, pkg, p) ==
    {[fn |-> "buildStruct", g |-> g,
      obj |-> TypeDecl(pkg, nS, StructT(fs), params)] :
        fs \in FieldSeqs(FieldPool(p), MaxFields), params \in ParamLists(p)}

InitStruct ==
    InitCall(CallWorld,
             StructCalls("codersdk", codersdk, codersdkPath)
               \cup StructCalls("healthsdk", healthsdk, healthsdkPath))

ApplyBuildStruct ==
    /\ pc = "call"
    /\ call.fn = "buildStruct"
    /\ \E r \in {buildStruct(world, call.g, call.obj, St)} :
          /\ ret' = r
          /\ allowList' = r.st.allowList
          /\ builtins' = r.st.builtins
    /\ pc' = "ret"
    /\ UNCHANGED <<world, cachedResult, baseIdx, extIdx, out, passLog, call>>

SpecStruct == InitStruct /\ [][ApplyBuildStruct]_vars

\* ---- buildStruct on records of the field N and one more field

BothTags(jsonName, jsonOptions, tsName, tsOptions) ==
    [json |-> Tag(jsonName, jsonOptions), typescript |-> Tag(tsName, tsOptions)]

\* a generic named type of codersdk with the type argument arg
GenericT(arg) == NamedT(codersdkPath, codersdk, nG, <<arg>>)

\* The second field of the records, in a package of path p: fields with an
\* override tag, fields that are not exported, and fields that mention the
\* type parameter T.
TaggedFields(p) ==
    {FieldOf(nP, FALSE, PointerT(StringT), TsTag(<<>>, <<<<"notnull">>>>)),
     FieldOf(nP, FALSE, PointerT(StringT),
             BothTags(<<"p">>, <<<<"omitempty">>>>, <<>>, <<<<"notnull">>>>)),
     FieldOf(nP, FALSE, StringT,
             BothTags(<<"p">>, <<<<"omitempty">>>>, <<>>, <<<<"notnull">>>>)),
     FieldOf(nQ, FALSE, NullTimeT, TsTag(<<>>, <<<<"notnull">>>>)),
     PlainField(<<"f">>, StringT),
     Embedded(CodersdkT(<<"a">>), NoTags),
     Embedded(CodersdkT(<<"a">>), JsonTag(<<"a">>, <<>>)),
     PlainField(<<"F", "t">>, ParamT(nT, p)),
     PlainField(<<"F", "t">>, SliceT(ParamT(nT, p))),
     PlainField(<<"F", "t">>, PointerT(ParamT(nT, p))),
     PlainField(<<"F", "t">>, MapT(ParamT(nT, p), StringT)),
     PlainField(<<"F", "t">>, MapT(StringT, ParamT(nT, p))),
     PlainField(<<"F", "t">>, GenericT(ParamT(nT, p))),
     FieldOf(<<"F", "t">>, FALSE, ParamT(nT, p), TsTag(<<"F", "o", "o">>, <<>>))}

\* The packages around the records: codersdk declares the record A, the
\* unexported record a, the scalar alias K and the generic record G.
FieldWorld ==
    MkWorld(MkGen(codersdk, codersdkPath, FALSE, externalTypePkgs,
                  <<TypeDecl(codersdk, nA, StructT(<<PlainField(nN, StringT)>>), <<>>),
                    TypeDecl(codersdk, <<"a">>, StructT(<<PlainField(nN, StringT)>>),
                             <<>>),
                    TypeDecl(codersdk, nK, StringT, <<>>),
                    TypeDecl(codersdk, nG,
                             StructT(<<PlainField(<<"F", "t">>,
                                                  ParamT(nT, codersdkPath))>>),
                             <<ParamT(nT, codersdkPath)>>)>>,
                  <<>>),
            HealthsdkGen(<<>>),
            HealthGen(<<>>, "leaf", FALSE),
            SerpentGen)

FieldCalls(g, pkg, p) ==
    {[fn |-> "buildStruct", g |-> g,
      obj |-> TypeDecl(pkg, nS, StructT(<<PlainField(nN, StringT), f>>), params)] :
        f \in TaggedFields(p), params \in ParamLists(p)}

InitField ==
    InitCall(FieldWorld,
             FieldCalls("codersdk", codersdk, codersdkPath)
               \cup FieldCalls("healthsdk", healthsdk, healthsdkPath))

SpecField == InitField /\ [][ApplyBuildStruct]_vars

\* ---- generateAll on a package of one scalar alias and its constants

EnumNames == {<<"S", "t", "a", "t", "u", "s">>, <<"B", "u", "s">>,
              <<"K", "i", "n", "d">>}
EnumVals == {<<"a">>, <<"b">>, <<"c">>}

\* The most constants of the scalar alias.
MaxConsts == 3

\* package codersdk: the scalar alias name and constants of the values vals
EnumGen(name, vals) ==
    MkGen(codersdk, codersdkPath, FALSE, externalTypePkgs,
          <<TypeDecl(codersdk, name, StringT, <<>>)>>
          \o [i \in 1..Len(vals) |->
                ConstDecl(codersdk, <<"C", Lower[i]>>, CodersdkT(name), vals[i])],
          <<>>)

EnumWorlds ==
    {MkWorld(EnumGen(name, vals), HealthsdkGen(<<>>),
             HealthGen(<<>>, "leaf", FALSE), SerpentGen) :
        name \in EnumNames, vals \in UNION {[1..k -> EnumVals] : k \in 0..MaxConsts}}

InitEnum ==
    \E w \in EnumWorlds :
        InitCall(w, {[fn |-> "generateAll", g |-> "codersdk"]})

ApplyGenerateAll ==
    /\ pc = "call"
    /\ call.fn = "generateAll"
    /\ \E r \in {generateAll(world, call.g, St)} :
          /\ ret' = r
          /\ allowList' = r.st.allowList
          /\ builtins' = r.st.builtins
    /\ pc' = "ret"
    /\ UNCHANGED <<world, cachedResult, baseIdx, extIdx, out, passLog, call>>

SpecEnum == InitEnum /\ [][ApplyGenerateAll]_vars

\* ---- Generate on a package of records, aliases, enums and unions

nC == <<"C">>
nD == <<"D">>
nE == <<"E">>
nF == <<"F">>

\* The declarations a package of codersdk is made of: the records A and G
\* (G with a comparable type parameter), the container alias D, the enums B
\* and E with a constant each, the unions C and F.
DeclPool ==
    <<  <<TypeDecl(codersdk, nA, StructT(<<PlainField(nN, StringT)>>), <<>>)>>,
        <<TypeDecl(codersdk, nB, StringT, <<>>),
          ConstDecl(codersdk, <<"B", "a">>, CodersdkT(nB), <<"a">>)>>,
        <<TypeDecl(codersdk, nC, InterfaceT(<<UnionT(<<StringT, IntT>>)>>), <<>>)>>,
        <<TypeDecl(codersdk, nD, MapT(StringT, IntT), <<>>)>>,
        <<TypeDecl(codersdk, nE, StringT, <<>>),
          ConstDecl(codersdk, <<"E", "a">>, CodersdkT(nE), <<"b">>)>>,
        <<TypeDecl(codersdk, nF, InterfaceT(<<UnionT(<<BoolT, PointerT(IntT)>>)>>),
                   <<>>)>>,
        <<TypeDecl(codersdk, nG,
             StructT(<<PlainField(<<"F", "t">>,
                                  TypeParamT(nT, codersdkPath, <<>>, comparableT))>>),
             <<TypeParamT(nT, codersdkPath, <<>>, comparableT)>>)>>  >>

GenerateWorlds ==
    {MkWorld(MkGen(codersdk, codersdkPath, FALSE, externalTypePkgs,
                   Join(SelectSeq2(DeclPool, picked, 1), <<>>), <<>>),
             HealthsdkGen(<<>>), HealthGen(<<>>, "leaf", FALSE), SerpentGen) :
        picked \in SUBSET (1..Len(DeclPool))}

InitGenerate ==
    \E w \in GenerateWorlds :
        InitCall(w, {[fn |-> "Generate", g |-> "codersdk"]})

\* func Generate(directory string, externals ...*Generator) (string, error)
ApplyGenerate ==
    /\ pc = "call"
    /\ call.fn = "Generate"
    /\ \E r \in {generateAll(world, call.g, St)} :
          /\ allowList' = r.st.allowList
          /\ builtins' = r.st.builtins
          /\ IF r.err # ""
             THEN /\ ret' = [text |-> <<>>, err |-> r.err, ts |-> NoTypes,
                             iter |-> [Types |-> <<>>, Enums |-> <<>>,
                                       Generics |-> <<>>]]
                  /\ UNCHANGED cachedResult
             ELSE /\ \E iter \in Iters(r.ts) :
                       ret' = [text |-> String(r.ts, iter), err |-> "",
                               ts |-> r.ts, iter |-> iter]
                  /\ cachedResult' = [cachedResult EXCEPT ![call.g] = r.ts]
    /\ pc' = "ret"
    /\ UNCHANGED <<world, baseIdx, extIdx, out, passLog, call>>

SpecGenerate == InitGenerate /\ [][ApplyGenerate]_vars

\* ---- generateAll as one pass of a scope, restricted or not

\* The most names on the allow-list a pass starts with.
MaxAllow == 2

\* The allow-lists an opt-in scope may hold when a pass starts: names that
\* references to its types appended (a constant's name is never referred to).
AllowLists(names) == UNION {[1..k -> names] : k \in 0..MaxAllow}

\* the generate directives of the primary package
GenerateComments ==
    {<<>>,
     <<[marker |-> "generate", rest |-> <<" ", "A", ",", "B">>]>>,
     <<[marker |-> "generate", rest |-> <<":", "E", " ", ",", "Z">>],
       [marker |-> "ignore", rest |-> <<":", "D">>]>>,
     <<[marker |-> "generate", rest |-> <<" ", "D", ",", "G">>],
       [marker |-> "ignore", rest |-> <<" ", "G", ",", "A">>]>>}

\* a package that no generator parsed, and its named types: the record R and
\* the scalar V; time.Time is a record too
extPath == <<"example.com/ext">>
ext == <<"e", "x", "t">>
ExtT(name) == NamedT(extPath, ext, name, <<>>)
nV == <<"V">>
ForeignTypes ==
    [q \in {QualName(ExtT(nR)), QualName(ExtT(nV)), QualName(TimeT)} |->
        [under |-> IF q = QualName(ExtT(nV)) THEN StringT
                   ELSE StructT(<<PlainField(nN, StringT)>>),
         tparams |-> <<>>]]

\* a type parameter whose constraint is declared in the package ext
ExtParamT == TypeParamT(nT, codersdkPath, extPath, nC)

\* The types of the field F of the record S of a pass: the types without a
\* rule of their own, and named types around them.
FieldLeaves ==
    {StructT(<<PlainField(nN, StringT)>>), ExtT(nR), ExtT(nV), TimeT,
     InterfaceT(<<>>), InterfaceT(<<SignatureT>>), ExtParamT,
     ParamT(nT, codersdkPath), CodersdkT(nA), StringT, ChanT(StringT)}

Wraps == {"none", "pointer", "slice"}

Wrap(how, ty) ==
    CASE how = "pointer" -> PointerT(ty)
      [] how = "slice" -> SliceT(ty)
      [] OTHER -> ty

\* package codersdk: the record A and the record S with a field F of type ty
FieldGen(ty, params) ==
    MkGen(codersdk, codersdkPath, FALSE, externalTypePkgs,
          <<TypeDecl(codersdk, nA, StructT(<<PlainField(nN, StringT)>>), <<>>),
            TypeDecl(codersdk, nS,
                     StructT(<<PlainField(nN, StringT), PlainField(nF, ty)>>),
                     params)>>,
          <<>>)

\* The passes: of the opt-in scope health with an allow-list, of the primary
\* scope codersdk with directives, and of codersdk with the record S.
PassCalls ==
    {[w |-> MkWorld(CodersdkGen(<<>>, FALSE), HealthsdkGen(<<>>),
                    HealthGen(xRefs, yShape, ignoreY), SerpentGen),
      call |-> [fn |-> "generateAll", g |-> "health", allowList |-> al]] :
        xRefs \in RefSeqs({HealthT(nY), PointerT(HealthT(nZ))}, 1),
        yShape \in YShapes,
        ignoreY \in BOOLEAN,
        al \in AllowLists({nX, nY, nZ})}
    \cup
    {[w |-> MkWorld(MkGen(codersdk, codersdkPath, FALSE, externalTypePkgs,
                          Join(DeclPool, <<>>), comments),
                    HealthsdkGen(<<>>), HealthGen(<<>>, "leaf", FALSE), SerpentGen),
      call |-> [fn |-> "generateAll", g |-> "codersdk", allowList |-> <<>>]] :
        comments \in GenerateComments}
    \cup
    {[w |-> [MkWorld(FieldGen(Wrap(how, leaf),
                              IF leaf.kind = "TypeParam" THEN <<leaf>> ELSE <<>>),
                     HealthsdkGen(<<>>), HealthGen(<<>>, "leaf", FALSE),
                     SerpentGen)
             EXCEPT !.foreign = ForeignTypes],
      call |-> [fn |-> "generateAll", g |-> "codersdk", allowList |-> <<>>,
                leaf |-> leaf, how |-> how]] :
        leaf \in FieldLeaves, how \in Wraps}

InitPass ==
    \E c \in PassCalls :
        /\ world = c.w
        /\ allowList = [InitialSt(world).allowList EXCEPT ![c.call.g] = c.call.allowList]
        /\ builtins = InitialSt(world).builtins
        /\ cachedResult = [g \in {baseDirs[i] : i \in 1..Len(baseDirs)} |-> NoTypes]
        /\ pc = "call"
        /\ baseIdx = 1
        /\ extIdx = 1
        /\ out = <<>>
        /\ passLog = [g \in {externalTypePkgs[i] : i \in 1..Len(externalTypePkgs)} |-> <<>>]
        /\ call = c.call
        /\ ret = Idle

SpecPass == InitPass /\ [][ApplyGenerateAll]_vars

\* ---- generateAll on a scope with generate directives

\* the generate directives of the package of S and A
DirectiveComments ==
    {<<>>,
     <<[marker |-> "generate", rest |-> <<" ", "S">>]>>,
     <<[marker |-> "generate", rest |-> <<" ", "A">>]>>,
     <<[marker |-> "generate", rest |-> <<":", "S", ",", "A">>]>>}

\* a package of the record A and the record S, whose field F refers to A
DirectiveGen(pkg, path, onlyOptIn, externals, how, comments) ==
    MkGen(pkg, path, onlyOptIn, externals,
          <<TypeDecl(pkg, nA, StructT(<<PlainField(nN, StringT)>>), <<>>),
            TypeDecl(pkg, nS,
                     StructT(<<PlainField(nN, StringT),
                               PlainField(nF, Wrap(how, NamedT(path, pkg, nA, <<>>)))>>),
                     <<>>)>>,
          comments)

\* The passes: of the primary scope codersdk, whose allow-list is empty, and
\* of the opt-in scope health with an allow-list.
DirectiveCalls ==
    {[w |-> MkWorld(DirectiveGen(codersdk, codersdkPath, FALSE, externalTypePkgs,
                                 how, comments),
                    HealthsdkGen(<<>>), HealthGen(<<>>, "leaf", FALSE), SerpentGen),
      call |-> [fn |-> "generateAll", g |-> "codersdk", allowList |-> <<>>]] :
        how \in Wraps, comments \in DirectiveComments}
    \cup
    {[w |-> MkWorld(CodersdkGen(<<>>, FALSE), HealthsdkGen(<<>>),
                    DirectiveGen(health, healthPath, TRUE, <<>>, how, comments),
                    SerpentGen),
      call |-> [fn |-> "generateAll", g |-> "health", allowList |-> al]] :
        how \in Wraps, comments \in DirectiveComments, al \in AllowLists({nS, nA})}

InitDirective ==
    \E c \in DirectiveCalls :
        /\ world = c.w
        /\ allowList = [InitialSt(world).allowList EXCEPT ![c.call.g] = c.call.allowList]
        /\ builtins = InitialSt(world).builtins
        /\ cachedResult = [g \in {baseDirs[i] : i \in 1..Len(baseDirs)} |-> NoTypes]
        /\ pc = "call"
        /\ baseIdx = 1
        /\ extIdx = 1
        /\ out = <<>>
        /\ passLog = [g \in {externalTypePkgs[i] : i \in 1..Len(externalTypePkgs)} |-> <<>>]
        /\ call = c.call
        /\ ret = Idle

SpecDirective == InitDirective /\ [][ApplyGenerateAll]_vars

\* ---- generateAll pass after pass on an opt-in scope

\* The most passes of a scope.
MaxPasses == 4

\* package health, opt-in: the record G of a comparable type parameter and
\* the record X, whose field F refers to G of string
GenericGen(how) ==
    MkGen(health, healthPath, TRUE, <<>>,
          <<TypeDecl(health, nG,
               StructT(<<PlainField(<<"F", "t">>,
                                    TypeParamT(nT, healthPath, <<>>, comparableT))>>),
               <<TypeParamT(nT, healthPath, <<>>, comparableT)>>),
            TypeDecl(health, nX,
               StructT(<<PlainField(nN, StringT),
                         PlainField(nF, Wrap(how, NamedT(healthPath, health, nG,
                                                        <<StringT>>)))>>),
               <<>>)>>,
          <<>>)

\* The scope health and the allow-list it holds before its first pass.
RepeatCalls ==
    {[w |-> MkWorld(CodersdkGen(<<>>, FALSE), HealthsdkGen(<<>>),
                    HealthGen(xRefs, yShape, ignoreY), SerpentGen),
      call |-> [fn |-> "generateAll", g |-> "health", allowList |-> al]] :
        xRefs \in RefSeqs({HealthT(nY), PointerT(HealthT(nZ))}, 1),
        yShape \in YShapes,
        ignoreY \in BOOLEAN,
        al \in AllowLists({nX})}
    \cup
    {[w |-> MkWorld(CodersdkGen(<<>>, FALSE), HealthsdkGen(<<>>),
                    GenericGen(how), SerpentGen),
      call |-> [fn |-> "generateAll", g |-> "health", allowList |-> al]] :
        how \in Wraps, al \in AllowLists({nX, nG})}

InitRepeat ==
    \E c \in RepeatCalls :
        /\ world = c.w
        /\ allowList = [InitialSt(world).allowList EXCEPT ![c.call.g] = c.call.allowList]
        /\ builtins = InitialSt(world).builtins
        /\ cachedResult = [g \in {baseDirs[i] : i \in 1..Len(baseDirs)} |-> NoTypes]
        /\ pc = "call"
        /\ baseIdx = 1
        /\ extIdx = 1
        /\ out = <<>>
        /\ passLog = [g \in {externalTypePkgs[i] : i \in 1..Len(externalTypePkgs)} |-> <<>>]
        /\ call = c.call
        /\ ret = Idle

\* one more call of ext.generateAll(), whether the last one grew the
\* allow-list or not
RepeatPass ==
    /\ pc = "call"
    /\ call.fn = "generateAll"
    /\ Len(passLog[call.g]) < MaxPasses
    /\ \E r \in {generateAll(world, call.g, St)} :
          /\ allowList' = r.st.allowList
          /\ builtins' = r.st.builtins
          /\ passLog' = [passLog EXCEPT ![call.g] =
                            Append(@, [before |-> allowList[call.g],
                                       after |-> r.st.allowList[call.g],
                                       ts |-> r.ts, err |-> r.err])]
          /\ ret' = r
    /\ UNCHANGED <<world, cachedResult, pc, baseIdx, extIdx, out, call>>

SpecRepeat == InitRepeat /\ [][RepeatPass]_vars

\* ---- typescriptType call by call

\* The frames a goroutine's stack holds before the runtime ends the program
\* with "fatal error: stack overflow".
MaxStack == 6

nL == <<"L">>
nM == <<"M">>

\* The packages around the calls: codersdk declares the record A with a
\* field of its own type, the records B and C that refer to each other, the
\* scalar alias K, the slice L of L and the map M of M; the package ext, which no generator
\* parsed, declares the record R of a field of its own type and the slice L
\* of L.
RecursiveWorld ==
    [MkWorld(MkGen(codersdk, codersdkPath, FALSE, externalTypePkgs,
                   <<TypeDecl(codersdk, nA,
                        StructT(<<PlainField(nN, PointerT(CodersdkT(nA)))>>), <<>>),
                     TypeDecl(codersdk, nB,
                        StructT(<<PlainField(nN, SliceT(CodersdkT(nC)))>>), <<>>),
                     TypeDecl(codersdk, nC,
                        StructT(<<PlainField(nN, PointerT(CodersdkT(nB)))>>), <<>>),
                     TypeDecl(codersdk, nK, StringT, <<>>),
                     TypeDecl(codersdk, nL, SliceT(CodersdkT(nL)), <<>>),
                     TypeDecl(codersdk, nM, MapT(StringT, CodersdkT(nM)), <<>>)>>,
                   <<>>),
             HealthsdkGen(<<>>),
             HealthGen(<<>>, "leaf", FALSE),
             SerpentGen)
     EXCEPT !.foreign =
         [q \in {QualName(ExtT(nR)), QualName(ExtT(nL))} |->
            [under |-> IF q = QualName(ExtT(nL)) THEN SliceT(ExtT(nL))
                       ELSE StructT(<<PlainField(nN, PointerT(ExtT(nR)))>>),
             tparams |-> <<>>]]]

\* The types of the nested calls of typescriptType(ty), in the order of the
\* calls when none of them fails.
Callees(w, g, ty) ==
    CASE ty.kind = "Map" -> <<ty.key, ty.elem>>
      [] ty.kind \in {"Slice", "Array"} ->
            IF TypeString(ty.elem) = <<"byte">> THEN <<>> ELSE <<ty.elem>>
      [] ty.kind = "Pointer" -> <<ty.elem>>
      [] ty.kind = "Named" ->
            IF IsHardCoded(TypeString(ty)) THEN <<>>
            ELSE IF MatchesSerpentStruct(TypeString(ty))
                    /\ Underlying(w, ty).kind = "Struct"
            THEN LET d == TypeDeclOf(w, ty)
                 IN  <<Instantiate(d.under.fields[1].type, d.tparams, ty.args)>>
            ELSE IF lookupNamedReference(w, g, ty).found THEN ty.args
            ELSE IF Underlying(w, ty).kind = "Struct" THEN <<>>
            ELSE <<Underlying(w, ty)>>
      [] OTHER -> <<>>

\* typescriptType(ty) returns an error of its own
FailsItself(ty) ==
    \/ ty.kind \notin {"Basic", "Struct", "Map", "Slice", "Array", "Named",
                       "Pointer", "Interface", "TypeParam"}
    \/ ty.kind = "TypeParam" /\ ~ty.iface

\* the frame of a call of typescriptType(ty): next is the nested call it
\* makes next, err whether it returns an error
Frame(ty) == [ty |-> ty, next |-> 1, err |-> FailsItself(ty)]

CallRoots ==
    {CodersdkT(nA), CodersdkT(nB), CodersdkT(nL), CodersdkT(nM), CodersdkT(nK),
     ExtT(nR), ExtT(nL), StringT, ChanT(StringT)}

CallTypes ==
    CallRoots
    \cup {PointerT(t) : t \in CallRoots}
    \cup {SliceT(t) : t \in CallRoots}
    \cup {MapT(StringT, t) : t \in CallRoots}
    \cup {MapT(t, StringT) : t \in {CodersdkT(nL), ChanT(StringT)}}

InitCalls ==
    InitCall(RecursiveWorld,
             {[fn |-> "typescriptType", g |-> g, ty |-> ty, frames |-> <<Frame(ty)>>] :
                 g \in {"codersdk", "healthsdk"}, ty \in CallTypes})

\* the call on top of the stack has a nested call left to make
Calling ==
    /\ pc = "call"
    /\ ~call.frames[Len(call.frames)].err
    /\ call.frames[Len(call.frames)].next
         <= Len(Callees(world, call.g, call.frames[Len(call.frames)].ty))

\* g.typescriptType(...) inside typescriptType
Enter ==
    /\ Calling
    /\ Len(call.frames) < MaxStack
    /\ \E top \in {call.frames[Len(call.frames)]} :
          call' = [call EXCEPT !.frames =
                      Append(@, Frame(Callees(world, call.g, top.ty)[top.next]))]
    /\ UNCHANGED <<world, allowList, builtins, cachedResult, pc, baseIdx, extIdx,
                   out, passLog, ret>>

\* the nested call for which the stack has no room
Overflow ==
    /\ Calling
    /\ Len(call.frames) = MaxStack
    /\ pc' = "overflow"
    /\ UNCHANGED <<world, allowList, builtins, cachedResult, baseIdx, extIdx, out,
                   passLog, call, ret>>

\* a return of typescriptType: the caller goes on with its next call, or
\* returns the error it got
Return ==
    /\ pc = "call"
    /\ ~Calling
    /\ \E n \in {Len(call.frames)} :
          IF n = 1
          THEN /\ pc' = "ret"
               /\ ret' = [err |-> call.frames[1].err]
               /\ call' = [call EXCEPT !.frames = <<>>]
          ELSE /\ call' = [call EXCEPT !.frames =
                              [SubSeq(@, 1, n - 1) EXCEPT
                                  ![n - 1].next = @ + 1,
                                  ![n - 1].err = call.frames[n].err]]
               /\ UNCHANGED <<pc, ret>>
    /\ UNCHANGED <<world, allowList, builtins, cachedResult, baseIdx, extIdx, out,
                   passLog>>

NextCalls == Enter \/ Overflow \/ Return

SpecCalls == InitCalls /\ [][NextCalls]_vars

\* ------------------------------------------------------------------ properties

Range(s) == {s[i] : i \in 1..Len(s)}
HasInfix(s, sub) ==
    \E i \in 0..(Len(s) - Len(sub)) : SubSeq(s, i + 1, i + Len(sub)) = sub
HasPrefix(s, pre) == Len(s) >= Len(pre) /\ SubSeq(s, 1, Len(pre)) = pre

Externals == Range(externalTypePkgs)
ExtIndex(g) == CHOOSE i \in 1..Len(externalTypePkgs) : externalTypePkgs[i] = g
\* the loop of main around the external scope g has ended
LoopEnded(g) == pc \in {"ext", "done"} /\ extIdx > ExtIndex(g)
LastPass(g) == passLog[g][Len(passLog[g])]
\* the names of the blocks of an output
Emitted(ts) == DOMAIN ts.Types \cup DOMAIN ts.Enums \cup DOMAIN ts.Generics
\* the names the passes of the loop of g added to its allow-list
AddedByPasses(g) ==
    UNION {Range(passLog[g][i].after) : i \in 1..Len(passLog[g])}
    \ Range(passLog[g][1].before)

\* C1: the loop of main around an external scope ends: it makes at most as
\* many passes as the scope has declarations, plus one, and while it runs
\* one of its three outcomes is possible.
C1_LoopEnds ==
    /\ \A g \in Externals : Len(passLog[g]) <= Len(world.gens[g].names) + 1
    /\ pc = "ext" => ENABLED (ExternalFatal \/ ExternalAgain \/ ExternalDone)

\* The loop of health ran three passes (X, then Y, then Z) and main ended.
C1_Witness == pc = "done" /\ Len(passLog["health"]) = 3

\* the declaration has a block of its own when it is generated
EmitsBlock(obj) ==
    /\ obj.obj = "TypeName"
    /\ \/ obj.under.kind \in {"Struct", "Basic", "Map", "Array", "Slice"}
       \/ obj.under.kind = "Interface" /\ Len(obj.under.embeddeds) = 1

\* Every name the passes of an ended loop added has a block in the output of
\* the last pass; with exceptions, but for the ignored names and the
\* declarations that emit no block.
AddedNamesEmitted(exceptions) ==
    \A g \in Externals :
        LoopEnded(g) =>
            \A n \in AddedByPasses(g) :
                \/ objName(world.gens[g].pkgName, n) \in Emitted(LastPass(g).ts)
                \/ /\ exceptions
                   /\ \/ n \in IgnoredTypes(world, g)
                      \/ ~EmitsBlock(world.gens[g].decls[n])

\* C2 (amended): when the loop of an external scope ends, the output of its
\* last pass has the declaration of every name a pass added to the
\* allow-list, unless the ignore directive names it or its declaration is of
\* a shape that emits no block.
C2_AddedNamesEmitted == AddedNamesEmitted(TRUE)

\* C2 as stated: the same without the exceptions.
C2_AsStated == AddedNamesEmitted(FALSE)

\* Pass 1 of health emitted X and added Y; the final output has Y.
C2_Witness ==
    /\ pc = "done"
    /\ nY \in AddedByPasses("health")
    /\ objName(health, nY) \notin Emitted(passLog["health"][1].ts)
    /\ objName(health, nY) \in Emitted(LastPass("health").ts)

\* the texts the step of main that prints next may print
PrintedTexts ==
    IF pc = "base"
    THEN With(generateAll(world, baseDirs[baseIdx], St), LAMBDA r :
            IF r.err # "" THEN {}
            ELSE {String(r.ts, iter) : iter \in Iters(r.ts)})
    ELSE IF pc = "ext"
    THEN With(ExternalPass(externalTypePkgs[extIdx]), LAMBDA p :
            IF p.r.err # "" \/ p.grew THEN {}
            ELSE {String(p.r.ts, iter) : iter \in Iters(p.r.ts)})
    ELSE {}

\* C4: the output text of a run is determined by its input: whatever the
\* order in which the maps of blocks are ranged over, the step that prints
\* the text of a scope prints the same text (every other part of a step is a
\* function of the state).
C4_Deterministic == Cardinality(PrintedTexts) <= 1

\* The text of a scope with several blocks in a group has been printed.
C4_Witness ==
    /\ pc = "done"
    /\ Cardinality(DOMAIN LastPass("health").ts.Types) >= 2
    /\ \E k \in 1..Len(out) : \E iter \in Iters(LastPass("health").ts) :
          out[k] = String(LastPass("health").ts, iter) \o <<"\n\n">>

\* the type mentions the type parameter p
RECURSIVE Mentions(_, _)
Mentions(ty, p) ==
    CASE ty.kind = "TypeParam" -> ty.name = p
      [] ty.kind \in {"Pointer", "Slice", "Array", "Chan"} -> Mentions(ty.elem, p)
      [] ty.kind = "Map" -> Mentions(ty.key, p) \/ Mentions(ty.elem, p)
      [] ty.kind = "Named" -> \E i \in 1..Len(ty.args) : Mentions(ty.args[i], p)
      [] OTHER -> FALSE

\* a record that declares a type parameter none of its fields mentions
UnboundParam(obj) ==
    /\ obj.obj = "TypeName"
    /\ obj.under.kind = "Struct"
    /\ \E i \in 1..Len(obj.tparams) :
          \A j \in 1..Len(obj.under.fields) :
              ~Mentions(obj.under.fields[j].type, obj.tparams[i].name)

\* C6: a record that declares a type parameter no field binds makes the pass
\* of its scope fail: a primary scope with such a record is never passed and
\* has no output, and a pass of an external scope that generates such a
\* record returns an error and no output.
C6_UnboundParamFailsPass ==
    /\ \A k \in 1..Len(baseDirs) :
          (\E n \in DOMAIN world.gens[baseDirs[k]].decls :
              UnboundParam(world.gens[baseDirs[k]].decls[n]))
          => /\ baseIdx <= k
             /\ pc \in {"header", "base", "fatal"}
             /\ cachedResult[baseDirs[k]] = NoTypes
             /\ Len(out) <= 2 * k
    /\ \A g \in Externals : \A i \in 1..Len(passLog[g]) :
          (\E n \in DOMAIN world.gens[g].decls :
              /\ UnboundParam(world.gens[g].decls[n])
              /\ n \in Range(passLog[g][i].before)
              /\ n \notin IgnoredTypes(world, g))
          => /\ passLog[g][i].err = "generic param missing"
             /\ passLog[g][i].ts = NoTypes

\* A pass of health that generated the record Y, whose parameter T no field
\* binds, failed and main stopped.
C6_Witness ==
    /\ pc = "fatal"
    /\ UnboundParam(world.gens["health"].decls[nY])
    /\ passLog["health"] # <<>>
    /\ nY \in Range(LastPass("health").before)
    /\ LastPass("health").err = "generic param missing"

\* the constants of the scalar alias name in the scope g
ConstsOf(w, g, name) ==
    {d \in Range([n \in 1..Len(w.gens[g].names) |->
                     w.gens[g].decls[w.gens[g].names[n]]]) :
        d.obj = "Const" /\ d.ctype.kind = "Named" /\ d.ctype.name = name}

\* the values of a set of constants in ascending order, each once
RECURSIVE Ascending(_)
Ascending(vals) ==
    IF vals = {} THEN <<>>
    ELSE LET least == CHOOSE v \in vals : \A u \in vals : u = v \/ StrLess(v, u)
         IN  <<least>> \o Ascending(vals \ {least})

\* C3: both literal lists of every emitted enum hold the values of its
\* constants, sorted and each once.
C3_EnumLiterals ==
    pc = "ret" /\ call.fn = "generateAll" /\ ret.err = "" =>
        \A name \in DOMAIN ret.ts.Enums :
            LET lits == Ascending({Quote(d.val) : d \in ConstsOf(world, call.g, name)})
            IN  /\ HasInfix(ret.ts.Enums[name],
                            <<"export type ">> \o name \o <<" = ">>
                            \o (IF lits = <<>> THEN <<"never">>
                                ELSE Join(lits, <<" | ">>))
                            \o <<"\n">>)
                /\ HasInfix(ret.ts.Enums[name],
                            <<"[] = [">> \o Join(lits, <<", ">>) \o <<"]">>)

\* C9: the companion array of every emitted enum is named by the name of the
\* type plus "es" when that name ends in "s", plus "s" otherwise.
C9_PluralName ==
    pc = "ret" /\ call.fn = "generateAll" /\ ret.err = "" =>
        \A name \in DOMAIN ret.ts.Enums :
            HasInfix(ret.ts.Enums[name],
                     <<"export const ">> \o name
                     \o (IF name[Len(name)] = "s" THEN <<"e", "s">> ELSE <<"s">>)
                     \o <<": ">> \o name \o <<"[] = [">>)

\* The enum Bus was emitted.
C9_Witness ==
    /\ pc = "ret"
    /\ call.fn = "generateAll"
    /\ <<"B", "u", "s">> \in DOMAIN ret.ts.Enums
    /\ HasInfix(ret.ts.Enums[<<"B", "u", "s">>],
                <<"export const ", "B", "u", "s", "e", "s", ": ">>)

\* the type is the single-byte integer primitive
IsByte(ty) == ty.kind = "Basic" /\ ty.bkind = "Uint8"

\* C8: a slice or array of the single-byte integer kind maps to string, and
\* one of any other element type to the mapped element type followed by [].
C8_ByteSlices ==
    pc = "ret" /\ call.fn = "typescriptType"
    /\ call.ty.kind \in {"Slice", "Array"} =>
        IF IsByte(call.ty.elem)
        THEN ret.err = "" /\ ret.ts.ValueType = <<"string">>
        ELSE With(typescriptType(world, call.g, call.ty.elem, St), LAMBDA e :
                e.err = "" =>
                    ret.err = "" /\ ret.ts.ValueType = e.ts.ValueType \o <<"[]">>)

\* the value type a field line shows for a mapped type
ShownType(ts) == IF ts.GenericValue # <<>> THEN ts.GenericValue ELSE ts.ValueType

\* the name a field line shows for a field
ShownName(f) ==
    IF f.tag.json.present /\ f.tag.json.name # <<>> THEN f.tag.json.name
    ELSE f.name

RECURSIVE SplitAt(_, _, _)
\* the parts of s between the tokens sep
SplitAt(s, sep, cur) ==
    IF s = <<>> THEN (IF cur = <<>> THEN <<>> ELSE <<cur>>)
    ELSE IF s[1] = sep THEN <<cur>> \o SplitAt(Tail(s), sep, <<>>)
    ELSE SplitAt(Tail(s), sep, Append(cur, s[1]))

\* the names of the extends clause of a built record
ExtendsNames(state) == Range(SplitAt(state.Extends, ", ", <<>>))

\* the built record has a field line for the field
HasFieldLine(state, f) ==
    \E k \in 1..Len(state.Fields) :
        HasPrefix(state.Fields[k], indent \o <<"readonly ">> \o ShownName(f)
                                   \o <<":">>)
        \/ HasPrefix(state.Fields[k], indent \o <<"readonly ">> \o ShownName(f)
                                      \o <<"?">>)
        \/ HasPrefix(state.Fields[k], indent \o <<"readonly ">> \o ShownName(f)
                                      \o <<": ">>)

\* C5: the parameter list of a built record has the declared type parameters
\* in the order of the declaration, each once as `Name extends Constraint`.
C5_GenericsInDeclaredOrder ==
    pc = "ret" /\ call.fn = "buildStruct" /\ ret.err = "" =>
        LET params == call.obj.tparams
            gens == [i \in 1..Len(params) |->
                       params[i].name \o <<" extends ">> \o params[i].cname]
        IN  /\ ret.state.Generics = gens
            /\ params # <<>> =>
                  HasInfix(ret.block,
                           <<"export interface ">> \o call.obj.name \o <<"<">>
                           \o Join(gens, <<", ">>) \o <<">">>)
            /\ params = <<>> =>
                  /\ HasInfix(ret.block, <<"export interface ">> \o call.obj.name)
                  /\ ~HasInfix(ret.block,
                               <<"export interface ">> \o call.obj.name \o <<"<">>)

\* A record declared with <T, U> whose first field uses U and whose second
\* field uses T was built.
C5_Witness ==
    /\ pc = "ret"
    /\ call.fn = "buildStruct"
    /\ ret.err = ""
    /\ Len(call.obj.tparams) = 2
    /\ call.obj.tparams[1].name = nT
    /\ Len(call.obj.under.fields) = 2
    /\ Mentions(call.obj.under.fields[1].type, nU)
    /\ Mentions(call.obj.under.fields[2].type, nT)

\* The field lines of the pointer fields of a built record show the field as
\* optional, with the mapped type of the pointee; with exceptOverride, but
\* for the fields with an override tag.
PointerFieldsOptional(exceptOverride) ==
    pc = "ret" /\ call.fn = "buildStruct" /\ ret.err = "" =>
        \A i \in 1..Len(call.obj.under.fields) :
            LET f == call.obj.under.fields[i]
            IN  /\ f.type.kind = "Pointer"
                /\ Exported(f.name)
                /\ ~(f.tag.json.present /\ f.tag.json.name = <<"-">>)
                /\ f.name \notin ExtendsNames(ret.state)
                /\ exceptOverride => ~f.tag.typescript.present
                => With(typescriptType(world, call.g, f.type.elem, St), LAMBDA e :
                      \E k \in 1..Len(ret.state.Fields) :
                          ret.state.Fields[k] =
                              indent \o <<"readonly ">> \o ShownName(f)
                              \o <<"?", ": ">> \o ShownType(e.ts))

EmbeddedType(f) == IF f.type.kind = "Pointer" THEN f.type.elem ELSE f.type

\* C10: in a record of a primary scope, an embedded field of a record type
\* of the same scope without a serialization tag yields an extends clause
\* and no field line; every other embedded field yields a field line and no
\* extends clause.
C10_EmbeddingToExtends ==
    pc = "ret" /\ call.fn = "buildStruct" /\ ret.err = "" =>
        \A i \in 1..Len(call.obj.under.fields) :
            LET f == call.obj.under.fields[i]
                t == EmbeddedType(f)
                sameScopeRecord == /\ t.kind = "Named"
                                   /\ t.pkg = call.obj.pkg
                                   /\ Underlying(world, t).kind = "Struct"
            IN  f.embedded =>
                    IF sameScopeRecord /\ ~f.tag.json.present
                    THEN /\ f.name \in ExtendsNames(ret.state)
                         /\ ~HasFieldLine(ret.state, f)
                    ELSE /\ f.name \notin ExtendsNames(ret.state)
                         /\ HasFieldLine(ret.state, f)

\* the declaration without the fields whose serialization tag is `-`
WithoutSuppressed(obj) ==
    [obj EXCEPT !.under.fields =
        SelectSeq(@, LAMBDA f : ~(f.tag.json.present /\ f.tag.json.name = <<"-">>))]

HasSuppressed(obj) ==
    \E i \in 1..Len(obj.under.fields) :
        /\ obj.under.fields[i].tag.json.present
        /\ obj.under.fields[i].tag.json.name = <<"-">>

\* C11: a field whose serialization tag name is `-` contributes nothing: the
\* record is built as the record without such fields is (the same block,
\* field lines, extends clause and generic bindings, the same error or none,
\* the same allow-lists), and no line of the block is about such a field.
C11_SuppressedFieldsAbsent ==
    pc = "ret" /\ call.fn = "buildStruct" /\ HasSuppressed(call.obj) =>
        /\ With(buildStruct(world, call.g, WithoutSuppressed(call.obj),
                            InitialSt(world)),
                LAMBDA r : ret = r)
        /\ \A i \in 1..Len(call.obj.under.fields) :
              LET f == call.obj.under.fields[i]
              IN  f.tag.json.present /\ f.tag.json.name = <<"-">> =>
                    /\ \A k \in 1..Len(ret.state.Fields) :
                          ~HasPrefix(ret.state.Fields[k],
                                     indent \o <<"readonly ">> \o f.name)
                    /\ f.name \notin ExtendsNames(ret.state)

\* A record with a field N and a suppressed field of a channel type was
\* built without error, and no allow-list grew.
C11_Witness ==
    /\ pc = "ret"
    /\ call.fn = "buildStruct"
    /\ ret.err = ""
    /\ Len(call.obj.under.fields) = 2
    /\ call.obj.under.fields[1] = PlainField(nN, StringT)
    /\ call.obj.under.fields[2].type = ChanT(StringT)
    /\ Len(ret.state.Fields) = 1
    /\ \A g \in Gens(world) : allowList[g] = <<>>

\* the comments main prints around the texts of the scopes
HeaderTexts ==
    {<<"// Code generated by 'make site/src/api/typesGenerated.ts'. DO NOT EDIT.\n\n">>}
    \cup {scopeHeader(g) : g \in Range(baseDirs) \cup Externals}

\* C12: a run emits the output of every scope or none: when a hard error
\* ends the run nothing has been printed, and the text of a scope is printed
\* only once every scope has been generated without error.
C12_AllOrNothing ==
    /\ pc = "fatal" => out = <<>>
    /\ (\E k \in 1..Len(out) : out[k] \notin HeaderTexts) =>
          /\ baseIdx > Len(baseDirs)
          /\ \A g \in Externals :
                passLog[g] # <<>> /\ LastPass(g).err = ""
                /\ LastPass(g).before = LastPass(g).after

\* the blocks of a group in ascending order of their names, each followed by
\* a line break
GroupText(group) ==
    With(Ascending(DOMAIN group), LAMBDA ks :
        Join([i \in 1..Len(ks) |-> group[ks[i]] \o <<"\n">>], <<>>))

\* how often sub occurs in s
Occurrences(s, sub) ==
    Cardinality({i \in 0..(Len(s) - Len(sub)) :
                    SubSeq(s, i + 1, i + Len(sub)) = sub})

\* C13: the text of a scope is its record blocks (container aliases
\* included), then its enum blocks, then its generic and union blocks, each
\* group in ascending order of the declared names, and every declaration is
\* in it once, whatever the order in which the maps were ranged over.
C13_GroupsSorted ==
    pc = "ret" /\ call.fn = "Generate" /\ ret.err = "" =>
        /\ ret.text = TrimNewlines(GroupText(ret.ts.Types)
                                   \o GroupText(ret.ts.Enums)
                                   \o GroupText(ret.ts.Generics))
        /\ \A n \in DOMAIN world.gens[call.g].decls :
              LET d == world.gens[call.g].decls[n]
              IN  d.obj = "TypeName" =>
                    /\ d.under.kind \in {"Struct", "Map", "Slice", "Array"}
                          <=> n \in DOMAIN ret.ts.Types
                    /\ d.under.kind = "Basic" <=> n \in DOMAIN ret.ts.Enums
                    /\ d.under.kind = "Interface" <=> n \in DOMAIN ret.ts.Generics
                    /\ Occurrences(ret.text, <<"export interface ">> \o n)
                       + Occurrences(ret.text, <<"export type ">> \o n \o <<" = ">>)
                       = 1

\* A text with two blocks or more in every group was written, the maps
\* having been ranged over in an order that is not the sorted one.
C13_Witness ==
    /\ pc = "ret"
    /\ call.fn = "Generate"
    /\ ret.err = ""
    /\ Cardinality(DOMAIN ret.ts.Types) >= 2
    /\ Cardinality(DOMAIN ret.ts.Enums) >= 2
    /\ Cardinality(DOMAIN ret.ts.Generics) >= 2
    /\ ret.iter.Types # Ascending(DOMAIN ret.ts.Types)
    /\ ret.iter.Enums # Ascending(DOMAIN ret.ts.Enums)
    /\ ret.iter.Generics # Ascending(DOMAIN ret.ts.Generics)

\* the allowed set a pass of generateAll started with
StartAllowed ==
    {TrimSpace(call.allowList[i]) : i \in 1..Len(call.allowList)}
    \cup DirectiveNames(call.g, world, "generate")

\* the blocks of an output
Blocks(ts) ==
    {ts.Types[k] : k \in DOMAIN ts.Types} \cup {ts.Enums[k] : k \in DOMAIN ts.Enums}
    \cup {ts.Generics[k] : k \in DOMAIN ts.Generics}

\* C14: in a pass of a scope that is opt-in or whose allowed set is not
\* empty, every block of a declaration of the scope is of a name in the
\* allowed set the pass started with; a typed constant that is not ignored
\* has its value in the block of its scalar alias when the alias is emitted,
\* whether its own name is allowed or not, and in no block when the alias is
\* not allowed.
C14_OnlyAllowedEmitted ==
    pc = "ret" /\ call.fn = "generateAll" /\ "allowList" \in DOMAIN call
    /\ ret.err = ""
    /\ (world.gens[call.g].onlyOptIn \/ StartAllowed # {}) =>
        LET gen == world.gens[call.g]
        IN  /\ \A k \in Emitted(ret.ts) :
                  \/ k \in DOMAIN ret.ts.Generics /\ isBuiltIn(k).include
                  \/ \E n \in StartAllowed \cap DOMAIN gen.decls :
                        k = objName(gen.pkgName, n)
            /\ \A n \in DOMAIN gen.decls \ StartAllowed :
                  gen.decls[n].obj = "TypeName" =>
                      objName(gen.pkgName, n) \notin Emitted(ret.ts)
            /\ \A c \in DOMAIN gen.decls :
                  LET d == gen.decls[c]
                      enum == objName(gen.pkgName, d.ctype.name)
                  IN  d.obj = "Const" /\ d.ctype.kind = "Named"
                      /\ c \notin IgnoredTypes(world, call.g) =>
                        /\ enum \in DOMAIN ret.ts.Enums =>
                              HasInfix(ret.ts.Enums[enum], Quote(d.val))
                        /\ d.ctype.name \notin StartAllowed =>
                              \A b \in Blocks(ret.ts) : ~HasInfix(b, Quote(d.val))

\* A pass of the opt-in scope health that started with Y alone on the
\* allow-list emitted the enum Y with the values of its constants, whose
\* names are not allowed, and nothing else.
C14_Witness ==
    /\ pc = "ret"
    /\ call.fn = "generateAll"
    /\ call.g = "health"
    /\ "allowList" \in DOMAIN call
    /\ call.allowList = <<nY>>
    /\ ret.err = ""
    /\ Emitted(ret.ts) = {objName(health, nY)}
    /\ DOMAIN ret.ts.Enums = {objName(health, nY)}
    /\ HasInfix(ret.ts.Enums[objName(health, nY)],
                <<"\"", "a", "\"", " | ", "\"", "b", "\"">>)

\* C15: a declaration whose name is in the ignore set of its scope has no
\* block in the output of any pass of the scope, also when the name is on
\* the allow-list the pass started with or is appended to it by a reference.
C15_IgnoredNeverEmitted ==
    /\ \A g \in Externals : \A i \in 1..Len(passLog[g]) :
          \A n \in IgnoredTypes(world, g) :
              objName(world.gens[g].pkgName, n) \notin Emitted(passLog[g][i].ts)
    /\ \A g \in Range(baseDirs) : \A n \in IgnoredTypes(world, g) :
          objName(world.gens[g].pkgName, n) \notin Emitted(cachedResult[g])

\* The loop of health ended after two passes or more; the record Y is
\* ignored, and the last pass started with Y on the allow-list.
C15_Witness ==
    /\ pc = "done"
    /\ nY \in IgnoredTypes(world, "health")
    /\ world.gens["health"].decls[nY].under.kind = "Struct"
    /\ Len(passLog["health"]) >= 2
    /\ nY \in Range(LastPass("health").before)
    /\ nY \notin Range(passLog["health"][1].before)

\* The type is one of those the claim is about: an anonymous record, an
\* interface, a type parameter whose constraint is neither declared in the
\* scope nor a builtin, a named record type that resolves in no scope; with
\* exceptTable, but for the names of the fixed table.
IsFallback(w, g, ty, exceptTable) ==
    \/ ty.kind \in {"Struct", "Interface"}
    \/ /\ ty.kind = "TypeParam"
       /\ ty.cpath # <<>>
       /\ ty.cpath # ty.pkgPath
       /\ ~InScope(w, g, ty.cpath \o <<".">> \o ty.cname)
    \/ /\ ty.kind = "Named"
       /\ ~lookupNamedReference(w, g, ty).found
       /\ Underlying(w, ty).kind = "Struct"
       /\ exceptTable => ~IsHardCoded(TypeString(ty))

\* Mapping such a type returns no error but the value type any with a
\* comment, and the pass over the record S with a field of the type, a
\* pointer to it or a slice of it succeeds and shows the field as any under
\* the comment (a type parameter by its name, bound to any).
FallbacksToAny(exceptTable) ==
    pc = "ret" /\ call.fn = "generateAll" /\ "leaf" \in DOMAIN call
    /\ IsFallback(world, call.g, call.leaf, exceptTable) =>
        /\ With(typescriptType(world, call.g, call.leaf, InitialSt(world)),
                LAMBDA r : /\ r.err = ""
                           /\ r.ts.ValueType = anyT
                           /\ r.ts.AboveTypeLine # <<>>
                           /\ HasInfix(ret.ts.Types[nS],
                                       r.ts.AboveTypeLine \o <<"\n">> \o indent
                                       \o <<"readonly ">> \o nF))
        /\ ret.err = ""
        /\ HasInfix(ret.ts.Types[nS],
                    <<": ">>
                    \o (IF call.leaf.kind = "TypeParam" THEN call.leaf.name
                        ELSE anyT)
                    \o (IF call.how = "slice" THEN <<"[]">> ELSE <<>>)
                    \o <<"\n}">>)
        /\ call.leaf.kind = "TypeParam" =>
              HasInfix(ret.ts.Types[nS],
                       <<"<">> \o call.leaf.name \o <<" extends ">> \o anyT
                       \o <<">">>)

\* C16 (amended): an anonymous inline record, a named record type that
\* resolves in no scope and is not in the fixed table of well-known names, an
\* empty or non-empty interface, and a type parameter whose constraint is
\* neither declared in scope nor a builtin map to any with a comment, without
\* error, and the pass that contains it succeeds.
C16_FallbacksToAny == FallbacksToAny(TRUE)

\* C16 as stated: the names of the fixed table included.
C16_AsStated == FallbacksToAny(FALSE)

\* A pass over a record with a field of a named record type of a package
\* that was not parsed succeeded.
C16_Witness ==
    /\ pc = "ret"
    /\ call.fn = "generateAll"
    /\ "leaf" \in DOMAIN call
    /\ call.leaf = ExtT(nR)
    /\ call.how = "pointer"
    /\ ret.err = ""
    /\ HasInfix(ret.ts.Types[nS], <<"readonly ">> \o nF \o <<"?", ": ">> \o anyT)

\* the declaration n of the scope of the pass passes the ignore and allow
\* filter of the pass
PassesFilter(n) ==
    /\ n \notin IgnoredTypes(world, call.g)
    /\ (world.gens[call.g].onlyOptIn \/ StartAllowed # {}) => n \in StartAllowed

\* C17: a pass of a scope with a named type declaration that passes the
\* filter and whose underlying shape is none of record, primitive, map,
\* array, slice, interface or function returns an error and no output, and
\* so does a pass that maps a field type, or the element type of a field, of
\* a kind without a rule.
C17_UnsupportedShapesFail ==
    pc = "ret" /\ call.fn = "generateAll" /\ "allowList" \in DOMAIN call =>
        /\ (\E n \in DOMAIN world.gens[call.g].decls :
               LET d == world.gens[call.g].decls[n]
               IN  /\ d.obj = "TypeName"
                   /\ PassesFilter(n)
                   /\ d.under.kind \notin {"Struct", "Basic", "Map", "Array", "Slice",
                                           "Interface", "Signature"})
            => ret.err # "" /\ ret.ts = NoTypes
        /\ "leaf" \in DOMAIN call /\ call.leaf.kind = "Chan"
            => ret.err = "unknown type" /\ ret.ts = NoTypes

\* A pass of health that started with the channel type Y on the allow-list
\* returned the error of the unsupported named type.
C17_Witness ==
    /\ pc = "ret"
    /\ call.fn = "generateAll"
    /\ call.g = "health"
    /\ world.gens["health"].decls[nY].under.kind = "Chan"
    /\ "allowList" \in DOMAIN call
    /\ PassesFilter(nY)
    /\ ret.err = "unsupported named type"
    /\ ret.ts = NoTypes

IsPrefix(s, t) == Len(s) <= Len(t) /\ SubSeq(t, 1, Len(s)) = s

\* C18: every step of a run leaves every allow-list a prefix of what it
\* becomes: names are only appended, and an allow-list whose length did not
\* change did not change.
C18_AllowListsOnlyAppended ==
    [][\A g \in Gens(world) :
          /\ IsPrefix(allowList[g], allowList'[g])
          /\ Len(allowList'[g]) = Len(allowList[g]) => allowList'[g] = allowList[g]]_vars

\* The allow-list of health grew in the generation of a primary scope and
\* again in a pass of health.
C18_Witness ==
    /\ pc = "done"
    /\ Len(passLog["health"]) >= 2
    /\ passLog["health"][1].before # <<>>
    /\ Len(passLog["health"][1].after) > Len(passLog["health"][1].before)

\* C19: no allow-list holds a name twice, and none is longer than its scope
\* has declarations.
C19_NoDuplicates ==
    \A g \in Gens(world) :
        /\ \A i, j \in 1..Len(allowList[g]) :
              i # j => allowList[g][i] # allowList[g][j]
        /\ Len(allowList[g]) <= Len(world.gens[g].names)

\* the scope the next step of main generates
Generating ==
    CASE pc = "base" -> baseDirs[baseIdx]
      [] pc = "ext" -> externalTypePkgs[extIdx]
      [] OTHER -> "none"

\* C20: a step of main that generates a scope changes the allow-list and
\* the builtins of no other scope.
C20_OtherScopesUnchanged ==
    [][\A g \in Gens(world) :
          g # Generating =>
              allowList'[g] = allowList[g] /\ builtins'[g] = builtins[g]]_vars

\* C21: the single-byte integer primitive maps to number with a comment that
\* says it is a byte; every other numeric primitive maps to number without a
\* comment.
C21_ByteHasComment ==
    pc = "ret" /\ call.fn = "typescriptType"
    /\ call.ty.kind = "Basic" /\ call.ty.numeric =>
        /\ ret.err = ""
        /\ ret.ts.ValueType = <<"number">>
        /\ IF call.ty.bkind = "Uint8"
           THEN ret.ts.AboveTypeLine # <<>>
           ELSE ret.ts.AboveTypeLine = <<>>

\* C22: a map type whose key and value map without error maps, without
\* error, to Record<mappedK, mappedV> with the bindings of the key overridden
\* by those of the value.
C22_MapMergesBindings ==
    pc = "ret" /\ call.fn = "typescriptType" /\ call.ty.kind = "Map" =>
        With(typescriptType(world, call.g, call.ty.key, InitialSt(world)), LAMBDA k :
            With(typescriptType(world, call.g, call.ty.elem, k.st), LAMBDA v :
                k.err = "" /\ v.err = "" =>
                    /\ ret.err = ""
                    /\ ret.ts.ValueType =
                          <<"Record<">> \o k.ts.ValueType \o <<", ">>
                          \o v.ts.ValueType \o <<">">>
                    /\ ret.ts.GenericTypes =
                          MapMerge(k.ts.GenericTypes, v.ts.GenericTypes)))

\* the field of a record that is built has a line of its own, or would have
\* one: it is exported, not suppressed by either tag and not an extends
\* clause
FieldIsEmitted(obj, i) ==
    LET f == obj.under.fields[i]
    IN  /\ Exported(f.name)
        /\ ~(f.tag.json.present /\ f.tag.json.name = <<"-">>)
        /\ ~(f.tag.typescript.present /\ f.tag.typescript.name = <<"-">>)
        /\ i \notin extendedFields(obj)

\* C23: a field whose override tag has the force-required option is emitted
\* as required, whatever made it optional.
C23_ForceRequired ==
    pc = "ret" /\ call.fn = "buildStruct" /\ ret.err = "" =>
        \A i \in 1..Len(call.obj.under.fields) :
            LET f == call.obj.under.fields[i]
            IN  /\ FieldIsEmitted(call.obj, i)
                /\ f.tag.typescript.present
                /\ f.tag.typescript.options # <<>>
                /\ f.tag.typescript.options[1] = <<"notnull">>
                => \E k \in 1..Len(ret.state.Fields) :
                      HasPrefix(ret.state.Fields[k],
                                indent \o <<"readonly ">> \o ShownName(f) \o <<": ">>)

\* C24: a field that is not exported has no field line and no extends
\* clause in the declaration of its record.
C24_UnexportedAbsent ==
    pc = "ret" /\ call.fn = "buildStruct" /\ ret.err = "" =>
        \A i \in 1..Len(call.obj.under.fields) :
            LET f == call.obj.under.fields[i]
            IN  ~Exported(f.name) =>
                  /\ \A k \in 1..Len(ret.state.Fields) :
                        ~HasPrefix(ret.state.Fields[k],
                                   indent \o <<"readonly ">> \o ShownName(f))
                  /\ f.name \notin ExtendsNames(ret.state)

\* C28: a record builds without error when each of its declared type
\* parameters occurs in the declared type of a field that is emitted,
\* whatever the position of the occurrence.
C28_BoundParamsBuild ==
    pc = "ret" /\ call.fn = "buildStruct" /\ call.obj.tparams # <<>>
    /\ (\A q \in 1..Len(call.obj.tparams) :
           \E i \in 1..Len(call.obj.under.fields) :
               /\ FieldIsEmitted(call.obj, i)
               /\ Mentions(call.obj.under.fields[i].type, call.obj.tparams[q].name))
    => ret.err = ""

\* C25: typescriptType terminates on every type: no named type is mapped
\* again while it is being mapped, and the stack of calls never runs out.
C25_Terminates ==
    /\ pc # "overflow"
    /\ call.fn = "typescriptType" /\ "frames" \in DOMAIN call =>
          \A i, j \in 1..Len(call.frames) :
              i < j /\ call.frames[i].ty.kind = "Named"
              => call.frames[i].ty # call.frames[j].ty

\* the type refers to the named type name of the package of path path
RECURSIVE RefersTo(_, _, _)
RefersTo(ty, path, name) ==
    CASE ty.kind = "Named" ->
            \/ ty.path = path /\ ty.name = name
            \/ \E i \in 1..Len(ty.args) : RefersTo(ty.args[i], path, name)
      [] ty.kind \in {"Pointer", "Slice", "Array", "Chan"} ->
            RefersTo(ty.elem, path, name)
      [] ty.kind = "Map" ->
            RefersTo(ty.key, path, name) \/ RefersTo(ty.elem, path, name)
      [] OTHER -> FALSE

\* C26: after a pass of a scope in allow-list mode, opt-in or switched by a
\* generate directive, every name of the scope that a field of an emitted
\* record of the scope refers to is on the allow-list of the scope.
C26_ReferencedNamesAllowed ==
    pc = "ret" /\ call.fn = "generateAll" /\ "allowList" \in DOMAIN call
    /\ ret.err = ""
    /\ (world.gens[call.g].onlyOptIn \/ StartAllowed # {}) =>
        LET gen == world.gens[call.g]
        IN  \A s \in DOMAIN gen.decls :
                /\ gen.decls[s].obj = "TypeName"
                /\ gen.decls[s].under.kind = "Struct"
                /\ objName(gen.pkgName, s) \in Emitted(ret.ts)
                => \A i \in 1..Len(gen.decls[s].under.fields) :
                      \A n \in DOMAIN gen.decls :
                          RefersTo(gen.decls[s].under.fields[i].type, gen.pkgPath, n)
                          => n \in Range(allowList[call.g])

\* the declarations the value type of ty names, as typescriptType of the
\* generator g resolves them: [gen, name]
RECURSIVE UsedNames(_, _, _)
UsedNames(w, g, ty) ==
    CASE ty.kind = "Named" ->
            IF IsHardCoded(TypeString(ty)) THEN {}
            ELSE IF lookupNamedReference(w, g, ty).found
            THEN {[gen |-> lookupNamedReference(w, g, ty).generator, name |-> ty.name]}
                 \cup UNION {UsedNames(w, g, ty.args[i]) : i \in 1..Len(ty.args)}
            ELSE IF Underlying(w, ty).kind = "Struct" THEN {}
            ELSE UsedNames(w, g, Underlying(w, ty))
      [] ty.kind \in {"Slice", "Array"} ->
            IF TypeString(ty.elem) = <<"byte">> THEN {} ELSE UsedNames(w, g, ty.elem)
      [] ty.kind = "Pointer" -> UsedNames(w, g, ty.elem)
      [] ty.kind = "Map" -> UsedNames(w, g, ty.key) \cup UsedNames(w, g, ty.elem)
      [] OTHER -> {}

\* the output main printed for the scope g
FinalOutput(g) ==
    IF g \in Range(baseDirs) THEN cachedResult[g] ELSE LastPass(g).ts

\* C27: when main ends, every declaration of a scope that a field of an
\* emitted record names has a block in the output of its scope, unless the
\* ignore directive of that scope names it.
C27_NoDanglingReference ==
    pc = "done" =>
        \A g \in DOMAIN world.gens :
            \A s \in DOMAIN world.gens[g].decls :
                LET d == world.gens[g].decls[s]
                IN  /\ d.obj = "TypeName"
                    /\ d.under.kind = "Struct"
                    /\ objName(world.gens[g].pkgName, s) \in Emitted(FinalOutput(g))
                    => \A i \in 1..Len(d.under.fields) :
                          \A u \in UsedNames(world, g, d.under.fields[i].type) :
                              \/ objName(world.gens[u.gen].pkgName, u.name)
                                    \in Emitted(FinalOutput(u.gen))
                              \/ u.name \in IgnoredTypes(world, u.gen)

\* C29: once a pass of an opt-in scope returned without error and left the
\* allow-list of the scope as it was, every later pass of the scope leaves
\* it as it was too and returns the same three groups of blocks.
C29_IdempotentAtFixpoint ==
    \A g \in Externals :
        \A i, j \in 1..Len(passLog[g]) :
            /\ i < j
            /\ passLog[g][i].err = ""
            /\ passLog[g][i].after = passLog[g][i].before
            => /\ passLog[g][j].err = ""
               /\ passLog[g][j].after = passLog[g][j].before
               /\ passLog[g][j].ts = passLog[g][i].ts

\* Four passes of health: the first emitted X and added G, the second
\* emitted more (G and the builtin comparable) and added nothing, the third
\* and the fourth repeated the second.
C29_Witness ==
    /\ Len(passLog["health"]) = 4
    /\ passLog["health"][1].after # passLog["health"][1].before
    /\ passLog["health"][2].after = passLog["health"][2].before
    /\ passLog["health"][2].ts # passLog["health"][1].ts
    /\ passLog["health"][2].err = ""
    /\ DOMAIN passLog["health"][2].ts.Generics # {}
    /\ passLog["health"][4].ts = passLog["health"][2].ts

====
